---------------------------- MODULE Spec2Model ----------------------------
(***************************************************************************)
(* Verification model of the multi-tenant task/project backend:            *)
(* organizations and memberships (OrganizationsService), projects          *)
(* (ProjectsService), tasks (TasksService), comments and mentions          *)
(* (CommentsService, MentionParserUtil) and custom properties              *)
(* (CustomPropertiesService).                                              *)
(*                                                                         *)
(* The relational store is modelled as one set of rows per table.  Each    *)
(* service method is one action (its guards are the method's early         *)
(* returns); the concurrent specifications split a method at its store     *)
(* round trips.  `response` holds the request that was served last and     *)
(* the classified outcome the caller sees.                                 *)
(***************************************************************************)
EXTENDS Integers, Sequences, FiniteSets, TLC

VARIABLES
  organizations,         \* rows of table organizations
  organization_members,  \* rows of table organization_members
  projects,              \* rows of table projects
  tasks,                 \* rows of table tasks
  comments,              \* rows of table comments
  mentions,              \* rows of table mentions
  custom_properties,     \* rows of table custom_properties
  custom_property_values,\* rows of table custom_property_values
  now,                   \* the clock read by new Date()
  response,              \* the last request and its outcome
  pc,                    \* per request slot: position inside the handler
  local,                 \* per request slot: the handler's local variables
  tx                     \* per request slot: rows staged by an open transaction

vars == <<organizations, organization_members, projects, tasks, comments,
          mentions, custom_properties, custom_property_values, now,
          response, pc, local, tx>>

store == <<organizations, organization_members, projects, tasks, comments,
           mentions, custom_properties, custom_property_values>>

-----------------------------------------------------------------------------
(* Bounds of the model *)

MaxOrgs == 3
MaxProjects == 1
MaxTasks == 1
MaxClock == 2
MaxComments == 1
MaxProperties == 1
MaxValues == 2
MaxRows == 3

-----------------------------------------------------------------------------
(* Users: the users table is fixed; registration is outside the model. *)

Users == {"u1", "u2", "u3"}

UserEmail(u) == [id |-> u, at |-> "example.com"]

Emails == {UserEmail(u) : u \in Users} \cup {[id |-> "nobody", at |-> "example.com"]}

userByEmail(email) == {u \in Users : UserEmail(u) = email}

(* enum MemberRole *)
OWNER == "owner"
ADMIN == "admin"
MEMBER == "member"
VIEWER == "viewer"
MemberRole == {OWNER, ADMIN, MEMBER, VIEWER}

(* HTTP status carried by AppError, and the error kind of the taxonomy *)
OK == 200
BadRequest == 400
Forbidden == 403
NotFound == 404
Conflict == 409
InternalError == 500

OrgIds == 1..MaxOrgs

NoResponse == [op |-> "none", status |-> OK, actor |-> "none", req |-> <<>>, data |-> {}]

Respond(op, actor, req, status, data) ==
  [op |-> op, status |-> status, actor |-> actor, req |-> req, data |-> data]

(* PrimaryGeneratedColumn: an id that no row of the table uses *)
NewId(used, ids) == CHOOSE i \in ids : i \notin used /\ \A j \in ids : j < i => j \in used

-----------------------------------------------------------------------------
(* Organization names and slugify(name, {lower: true, strict: true}).       *)
(* A name is a sequence of characters.  Strict mode drops every character  *)
(* that is neither alphanumeric nor white space, the result is trimmed,    *)
(* each run of white space becomes one "-", and letters are lower-cased.   *)

Names == { <<"A", "c">>, <<"a", "c">>, <<"a", "!", "c">>, <<"a", " ", "c">>, <<" ", "a", "c">> }

Lower(c) == IF c = "A" THEN "a" ELSE c

IsAlnum(c) == c \in {"A", "a", "c"}

IsSpace(c) == c = " "

RECURSIVE stripSpecial(_)
stripSpecial(s) ==
  IF s = <<>> THEN <<>>
  ELSE IF IsAlnum(Head(s)) \/ IsSpace(Head(s)) THEN <<Head(s)>> \o stripSpecial(Tail(s))
       ELSE stripSpecial(Tail(s))

RECURSIVE trimLeft(_)
trimLeft(s) == IF s # <<>> /\ IsSpace(Head(s)) THEN trimLeft(Tail(s)) ELSE s

RECURSIVE trimRight(_)
trimRight(s) ==
  IF s # <<>> /\ IsSpace(s[Len(s)]) THEN trimRight(SubSeq(s, 1, Len(s) - 1)) ELSE s

RECURSIVE dashes(_)
dashes(s) ==
  IF s = <<>> THEN <<>>
  ELSE IF IsSpace(Head(s))
       THEN IF Len(s) > 1 /\ IsSpace(s[2]) THEN dashes(Tail(s))
            ELSE <<"-">> \o dashes(Tail(s))
       ELSE <<Lower(Head(s))>> \o dashes(Tail(s))

slugify(name) == dashes(trimRight(trimLeft(stripSpecial(name))))

-----------------------------------------------------------------------------
(* organization_members queries *)

findMember(orgId, userId) ==
  {m \in organization_members : m.organization_id = orgId /\ m.user_id = userId}

roleOf(orgId, userId) ==
  IF findMember(orgId, userId) = {} THEN "none"
  ELSE (CHOOSE m \in findMember(orgId, userId) : TRUE).role

ownerCount(orgId) ==
  Cardinality({m \in organization_members : m.organization_id = orgId /\ m.role = OWNER})

canManageMembers(role) == role \in {OWNER, ADMIN}


-----------------------------------------------------------------------------
(* OrganizationsService, one action per method (requests served one at a time) *)

Slots == {1, 2}
Idle == [p \in Slots |-> "idle"]
NoLocal == [p \in Slots |-> [op |-> "none"]]
NoTx == [p \in Slots |-> [open |-> FALSE]]

sequential == UNCHANGED <<pc, local, tx>>

otherTables == UNCHANGED <<projects, tasks, comments, mentions, custom_properties,
                           custom_property_values, now>>

(* mutant of slugTaken: the lookup compares the name column *)
slugTaken_byName(slug) == \E o \in organizations : o.name = slug

slugTaken(slug) == \E o \in organizations : o.slug = slug

(* mutant of ownerMembership: the creator is stored with the column default *)
ownerMembership_asMember(orgId, userId) ==
  [organization_id |-> orgId, user_id |-> userId, role |-> MEMBER]

ownerMembership(orgId, userId) ==
  [organization_id |-> orgId, user_id |-> userId, role |-> OWNER]

(* @Column({ unique: true }) slug: the store refuses a second row with the slug *)
violatesUniqueSlug(rows, row) == \E o \in rows : o.id # row.id /\ o.slug = row.slug

createOrganization(userId, name) ==
  LET slug == slugify(name)
      req == [name |-> name]
  IN /\ IF slugTaken(slug)
        THEN /\ response' = Respond("createOrganization", userId, req, Conflict, {})
             /\ UNCHANGED <<organizations, organization_members>>
        ELSE /\ Cardinality(organizations) < MaxOrgs
             /\ LET id == NewId({o.id : o \in organizations}, OrgIds)
                    organization == [id |-> id, name |-> name, slug |-> slug]
                IN IF violatesUniqueSlug(organizations, organization)
                   THEN /\ response' = Respond("createOrganization", userId, req,
                                               InternalError, {})
                        /\ UNCHANGED <<organizations, organization_members>>
                   ELSE /\ organizations' = organizations \cup {organization}
                        /\ organization_members' =
                             organization_members \cup {ownerMembership(id, userId)}
                        /\ response' = Respond("createOrganization", userId, req, OK,
                                               {organization})
     /\ otherTables
     /\ sequential

(* UpdateOrganizationDto: name is optional *)
NoName == <<>>

updateOrganization(orgId, userId, dtoName) ==
  LET req == [orgId |-> orgId, name |-> dtoName]
      deny(status) == /\ response' = Respond("updateOrganization", userId, req, status, {})
                      /\ UNCHANGED organizations
      found == {o \in organizations : o.id = orgId}
  IN /\ IF ~canManageMembers(roleOf(orgId, userId)) THEN deny(Forbidden)
        ELSE IF found = {} THEN deny(NotFound)
        ELSE LET organization == CHOOSE o \in found : TRUE
                 updated == IF dtoName = NoName THEN organization
                            ELSE [organization EXCEPT !.name = dtoName,
                                                      !.slug = slugify(dtoName)]
             IN IF violatesUniqueSlug(organizations, updated) THEN deny(InternalError)
                ELSE /\ organizations' = (organizations \ {organization}) \cup {updated}
                     /\ response' = Respond("updateOrganization", userId, req, OK, {updated})
     /\ UNCHANGED organization_members
     /\ otherTables
     /\ sequential

inviteMember(orgId, inviterId, email, role) ==
  LET req == [orgId |-> orgId]
      userToInvite == userByEmail(email)
      deny(status) == /\ response' = Respond("inviteMember", inviterId, req, status, {})
                      /\ UNCHANGED organization_members
  IN /\ IF ~canManageMembers(roleOf(orgId, inviterId)) THEN deny(Forbidden)
        ELSE IF userToInvite = {} THEN deny(NotFound)
        ELSE LET invited == CHOOSE u \in userToInvite : TRUE
             IN IF findMember(orgId, invited) # {} THEN deny(Conflict)
                ELSE LET newMember == [organization_id |-> orgId, user_id |-> invited,
                                       role |-> role]
                     IN /\ organization_members' = organization_members \cup {newMember}
                        /\ response' = Respond("inviteMember", inviterId, req, OK, {newMember})
     /\ UNCHANGED organizations
     /\ otherTables
     /\ sequential

(* mutant of isLastOwner: the comparison is off by one *)
isLastOwner_offByOne(count) == count < 1

(* ownerCount <= 1: the member touched is the last OWNER *)
isLastOwner(count) == count <= 1

(* admin.role !== OWNER && newRole === OWNER *)
grantsOwnerWithoutOwner(adminRole, newRole) == adminRole # OWNER /\ newRole = OWNER

(* repository.save of a membership entity: insert or update by primary key *)
saveMember(rows, member) ==
  {m \in rows : ~(m.organization_id = member.organization_id /\ m.user_id = member.user_id)}
    \cup {member}

(* repository.remove of a membership entity: delete by primary key *)
removeMemberRow(rows, member) ==
  {m \in rows : ~(m.organization_id = member.organization_id /\ m.user_id = member.user_id)}

updateMemberRole(orgId, adminId, memberId, newRole) ==
  LET req == [orgId |-> orgId, memberId |-> memberId]
      deny(status) == /\ response' = Respond("updateMemberRole", adminId, req, status, {})
                      /\ UNCHANGED organization_members
      memberToUpdate == findMember(orgId, memberId)
  IN /\ IF ~canManageMembers(roleOf(orgId, adminId)) THEN deny(Forbidden)
        ELSE IF grantsOwnerWithoutOwner(roleOf(orgId, adminId), newRole) THEN deny(Forbidden)
        ELSE IF memberToUpdate = {} THEN deny(NotFound)
        ELSE IF roleOf(orgId, memberId) = OWNER /\ isLastOwner(ownerCount(orgId))
             THEN deny(BadRequest)
        ELSE /\ organization_members' =
                  saveMember(organization_members,
                             [organization_id |-> orgId, user_id |-> memberId, role |-> newRole])
             /\ response' = Respond("updateMemberRole", adminId, req, OK, {})
     /\ UNCHANGED organizations
     /\ otherTables
     /\ sequential

removeMember(orgId, adminId, memberId) ==
  LET req == [orgId |-> orgId, memberId |-> memberId]
      deny(status) == /\ response' = Respond("removeMember", adminId, req, status, {})
                      /\ UNCHANGED organization_members
      memberToRemove == findMember(orgId, memberId)
  IN /\ IF ~canManageMembers(roleOf(orgId, adminId)) THEN deny(Forbidden)
        ELSE IF memberToRemove = {} THEN deny(NotFound)
        ELSE IF roleOf(orgId, memberId) = OWNER /\ isLastOwner(ownerCount(orgId))
             THEN deny(BadRequest)
        ELSE /\ organization_members' =
                  removeMemberRow(organization_members, CHOOSE m \in memberToRemove : TRUE)
             /\ response' = Respond("removeMember", adminId, req, OK, {})
     /\ UNCHANGED organizations
     /\ otherTables
     /\ sequential

CreateOrganization == \E u \in Users, name \in Names : createOrganization(u, name)

UpdateOrganization ==
  \E o \in OrgIds, u \in Users, name \in Names \cup {NoName} : updateOrganization(o, u, name)

InviteMember ==
  \E o \in OrgIds, u \in Users, e \in Emails, r \in MemberRole : inviteMember(o, u, e, r)

UpdateMemberRole ==
  \E o \in OrgIds, a \in Users, m \in Users, r \in MemberRole : updateMemberRole(o, a, m, r)

RemoveMember == \E o \in OrgIds, a \in Users, m \in Users : removeMember(o, a, m)

NoRequests ==
  /\ now = 1
  /\ response = NoResponse
  /\ pc = Idle
  /\ local = NoLocal
  /\ tx = NoTx

NoWork ==
  /\ projects = {}
  /\ tasks = {}
  /\ comments = {}
  /\ mentions = {}
  /\ custom_properties = {}
  /\ custom_property_values = {}

(* SpecOrg: organizations are created and renamed, starting from an empty store *)
InitOrg ==
  /\ organizations = {}
  /\ organization_members = {}
  /\ NoWork
  /\ NoRequests

NextOrg == CreateOrganization \/ UpdateOrganization

SpecOrg == InitOrg /\ [][NextOrg]_vars

(* SpecMembers: the membership of one organization, starting from any      *)
(* membership that has at least one OWNER                                  *)
Acme == [id |-> 1, name |-> <<"A", "c">>, slug |-> slugify(<<"A", "c">>)]

membersOf(orgId, roles) ==
  {[organization_id |-> orgId, user_id |-> u, role |-> roles[u]] :
     u \in {v \in Users : roles[v] # "none"}}

InitMembers ==
  /\ organizations = {Acme}
  /\ \E roles \in [Users -> MemberRole \cup {"none"}] :
       /\ \E u \in Users : roles[u] = OWNER
       /\ organization_members = membersOf(Acme.id, roles)
  /\ NoWork
  /\ NoRequests

NextMembers == InviteMember \/ UpdateMemberRole \/ RemoveMember

SpecMembers == InitMembers /\ [][NextMembers]_vars

-----------------------------------------------------------------------------
(* Claims about organizations and memberships *)

(* C1: every organization keeps at least one OWNER along any sequence of   *)
(* updateMemberRole and removeMember calls, and a call that targets the    *)
(* only OWNER is rejected and leaves the membership rows unchanged.        *)
EveryOrgHasOwner == \A o \in organizations : ownerCount(o.id) >= 1

LastOwnerCallRejected ==
  (/\ response'.op \in {"updateMemberRole", "removeMember"}
   /\ canManageMembers(roleOf(response'.req.orgId, response'.actor))
   /\ roleOf(response'.req.orgId, response'.req.memberId) = OWNER
   /\ ownerCount(response'.req.orgId) = 1)
  => (response'.status # OK /\ organization_members' = organization_members)

C1_OwnerAlwaysRemains == []EveryOrgHasOwner /\ [][LastOwnerCallRejected]_vars

C1_Witness ==
  /\ response.op \in {"updateMemberRole", "removeMember"}
  /\ response.status = BadRequest
  /\ ownerCount(response.req.orgId) = 1
  /\ Cardinality(organization_members) > 1

(* C8: a successful createOrganization adds the organization and exactly   *)
(* one membership row, (creator, OWNER), and changes no other row.         *)
C8_Step ==
  (response'.op = "createOrganization" /\ response'.status = OK)
  => \E org \in response'.data :
       /\ org \notin organizations
       /\ \A o \in organizations : o.id # org.id
       /\ organizations' = organizations \cup {org}
       /\ organization_members' = organization_members \cup
            {[organization_id |-> org.id, user_id |-> response'.actor, role |-> OWNER]}
       /\ {m \in organization_members' : m.organization_id = org.id} =
            {[organization_id |-> org.id, user_id |-> response'.actor, role |-> OWNER]}

C8_CreateAddsOneOwner == [][C8_Step]_vars

C8_Witness ==
  /\ response.op = "createOrganization"
  /\ response.status = OK
  /\ Cardinality(organizations) = 2
  /\ Cardinality(organization_members) = 2

(* C9: createOrganization with a name whose slug an existing organization  *)
(* has fails with Conflict and creates no organization and no membership.  *)
C9_Step ==
  (/\ response'.op = "createOrganization"
   /\ \E o \in organizations : o.slug = slugify(response'.req.name))
  => /\ response'.status = Conflict
     /\ organizations' = organizations
     /\ organization_members' = organization_members

C9_DuplicateSlugConflict == [][C9_Step]_vars

C9_Witness ==
  /\ response.op = "createOrganization"
  /\ response.status = Conflict
  /\ \E o \in organizations : o.slug = slugify(response.req.name) /\ o.name # response.req.name

-----------------------------------------------------------------------------
(* Concurrent requests on the membership table.  Each slot serves one      *)
(* request; a handler is suspended at every store round trip (await), and  *)
(* the repository calls of updateMemberRole and removeMember run outside   *)
(* any transaction, so each round trip sees the rows committed so far.     *)

finish(p, status) ==
  /\ pc' = [pc EXCEPT ![p] = "done"]
  /\ local' = [local EXCEPT ![p] = [local[p] EXCEPT !.status = status]]

membersOnly == UNCHANGED <<organizations, projects, tasks, comments, mentions,
                           custom_properties, custom_property_values, now, response, tx>>

(* a request arrives: updateMemberRole or removeMember (newRole "none") *)
memberRequestArrives(p, op, orgId, adminId, memberId, newRole) ==
  /\ pc[p] = "idle"
  /\ pc' = [pc EXCEPT ![p] = "findAdmin"]
  /\ local' = [local EXCEPT ![p] = [op |-> op, orgId |-> orgId, adminId |-> adminId,
                                    memberId |-> memberId, newRole |-> newRole,
                                    memberRole |-> "none", status |-> 0]]
  /\ UNCHANGED organization_members
  /\ membersOnly

(* const admin = await findOne(...); the two permission checks *)
findAdmin(p) ==
  /\ pc[p] = "findAdmin"
  /\ LET l == local[p]
         adminRole == roleOf(l.orgId, l.adminId)
     IN IF ~canManageMembers(adminRole) THEN finish(p, Forbidden)
        ELSE IF l.op = "updateMemberRole" /\ grantsOwnerWithoutOwner(adminRole, l.newRole)
             THEN finish(p, Forbidden)
        ELSE /\ pc' = [pc EXCEPT ![p] = "findTarget"]
             /\ UNCHANGED local
  /\ UNCHANGED organization_members
  /\ membersOnly

(* const memberToUpdate / memberToRemove = await findOne(...) *)
findTarget(p) ==
  /\ pc[p] = "findTarget"
  /\ LET l == local[p]
     IN IF findMember(l.orgId, l.memberId) = {} THEN finish(p, NotFound)
        ELSE /\ local' = [local EXCEPT ![p].memberRole = roleOf(l.orgId, l.memberId)]
             /\ pc' = [pc EXCEPT ![p] = IF roleOf(l.orgId, l.memberId) = OWNER
                                        THEN "countOwners" ELSE "write"]
  /\ UNCHANGED organization_members
  /\ membersOnly

(* const ownerCount = await count(...); if (ownerCount <= 1) throw *)
countOwners(p) ==
  /\ pc[p] = "countOwners"
  /\ IF isLastOwner(ownerCount(local[p].orgId)) THEN finish(p, BadRequest)
     ELSE /\ pc' = [pc EXCEPT ![p] = "write"]
          /\ UNCHANGED local
  /\ UNCHANGED organization_members
  /\ membersOnly

(* await save(memberToUpdate) / await remove(memberToRemove) *)
writeMember(p) ==
  /\ pc[p] = "write"
  /\ LET l == local[p]
     IN organization_members' =
          IF l.op = "updateMemberRole"
          THEN saveMember(organization_members,
                          [organization_id |-> l.orgId, user_id |-> l.memberId,
                           role |-> l.newRole])
          ELSE removeMemberRow(organization_members,
                               [organization_id |-> l.orgId, user_id |-> l.memberId,
                                role |-> l.memberRole])
  /\ finish(p, OK)
  /\ membersOnly

(* SpecRace: an organization with exactly two OWNERs and two request slots *)
InitRace ==
  /\ organizations = {Acme}
  /\ \E r3 \in MemberRole \ {OWNER} :
       organization_members =
         membersOf(Acme.id, [u \in Users |-> IF u = "u3" THEN r3 ELSE OWNER])
  /\ NoWork
  /\ NoRequests

NextRace ==
  \/ \E p \in Slots, a \in Users, m \in Users, r \in MemberRole :
       memberRequestArrives(p, "updateMemberRole", Acme.id, a, m, r)
  \/ \E p \in Slots, a \in Users, m \in Users :
       memberRequestArrives(p, "removeMember", Acme.id, a, m, "none")
  \/ \E p \in Slots : findAdmin(p)
  \/ \E p \in Slots : findTarget(p)
  \/ \E p \in Slots : countOwners(p)
  \/ \E p \in Slots : writeMember(p)

SpecRace == InitRace /\ [][NextRace]_vars

(* C6: two concurrent requests that demote or remove the two OWNERs never  *)
(* leave the organization without an OWNER.                                *)
C6_ConcurrentDemotionsKeepOwner ==
  (\A p \in Slots : pc[p] = "done" /\ local[p].op \in {"updateMemberRole", "removeMember"})
    => ownerCount(Acme.id) >= 1

-----------------------------------------------------------------------------
(* Projects and tasks: ProjectsService and TasksService *)

ProjectIds == 1..MaxProjects
TaskIds == 1..MaxTasks

(* enum TaskStatus, enum TaskPriority *)
TODO == "todo"
IN_PROGRESS == "in_progress"
REVIEW == "review"
DONE == "done"
ARCHIVED == "archived"
TaskStatus == {TODO, IN_PROGRESS, REVIEW, DONE, ARCHIVED}

LOW == "low"
MEDIUM == "medium"
HIGH == "high"
URGENT == "urgent"
TaskPriority == {LOW, MEDIUM, HIGH, URGENT}

(* a DTO field that is absent, a column that is NULL; the dates: NULL and   *)
(* a property that is undefined on the entity object                       *)
Undefined == "undefined"
Null == "null"
NullDate == 0
UndefinedDate == -1

Beta == [id |-> 2, name |-> <<"a", " ", "c">>, slug |-> slugify(<<"a", " ", "c">>)]

(* mutant of hasAccess: a membership row in any organization is enough *)
hasAccess_anyOrganization(orgId, userId) ==
  \E m \in organization_members : m.user_id = userId

(* every project and task method: the actor has a membership row in the organization *)
hasAccess(orgId, userId) == findMember(orgId, userId) # {}

findProject(projectId) == {p \in projects : p.id = projectId}
findTask(taskId) == {t \in tasks : t.id = taskId}
projectOfTask(task) == CHOOSE p \in projects : p.id = task.project_id
tasksOfProject(projectId) == {t \in tasks : t.project_id = projectId}

tasksFrame == UNCHANGED <<organizations, organization_members, comments, mentions,
                          custom_properties, custom_property_values>>

(* ---- TasksService ---- *)

(* taskRepository.create({...dto, project_id, created_by, status: TODO}): only the
   properties of the entity are copied, so assigneeId is not; priority falls back to
   the column default; the spread status is overwritten *)
newTask(id, projectId, userId, dto) ==
  [id |-> id, project_id |-> projectId, title |-> dto.title, status |-> TODO,
   priority |-> IF dto.priority = Undefined THEN MEDIUM ELSE dto.priority,
   assignee_id |-> Null, completed_at |-> NullDate, created_by |-> userId,
   description |-> IF "description" \in DOMAIN dto /\ dto.description # Undefined
                   THEN dto.description ELSE Null]

rejectsAssignee_anyOrganization(orgId, assigneeId) ==
  /\ assigneeId \notin {Undefined, Null}
  /\ {m \in organization_members : m.user_id = assigneeId} = {}

(* if (dto.assigneeId) { findOne({organization_id, user_id: dto.assigneeId});
   if (!assigneeMember) throw new AppError(400, ...) } *)
rejectsAssignee(orgId, assigneeId) ==
  /\ assigneeId \notin {Undefined, Null}
  /\ findMember(orgId, assigneeId) = {}

createTask(projectId, userId, dto) ==
  LET req == [projectId |-> projectId, dto |-> dto]
      deny(status) == /\ response' = Respond("createTask", userId, req, status, {})
                      /\ UNCHANGED tasks
  IN /\ IF findProject(projectId) = {} THEN deny(NotFound)
        ELSE LET project == CHOOSE p \in findProject(projectId) : TRUE
             IN IF ~hasAccess(project.organization_id, userId) THEN deny(Forbidden)
                ELSE IF rejectsAssignee(project.organization_id, dto.assigneeId)
                     THEN deny(BadRequest)
                ELSE /\ Cardinality(tasks) < MaxTasks
                     /\ LET task == newTask(NewId({t.id : t \in tasks}, TaskIds),
                                            projectId, userId, dto)
                        IN /\ tasks' = tasks \cup {task}
                           /\ response' = Respond("createTask", userId, req, OK, {task})
     /\ UNCHANGED <<projects, now>>
     /\ tasksFrame
     /\ sequential

(* ---- pagination of the list routes ---- *)

(* a query parameter is a sequence: empty when the request does not carry it *)
Absent == <<>>

NoQuery == [page |-> Absent, limit |-> Absent]

Max(a, b) == IF a > b THEN a ELSE b
Min(a, b) == IF a < b THEN a ELSE b

(* const { page = 1, limit = 10 } = req.query; { page: +page, limit: +limit } *)
fromQuery(query) ==
  [page |-> IF query.page = Absent THEN 1 ELSE query.page[1],
   limit |-> IF query.limit = Absent THEN 10 ELSE query.limit[1]]

(* x || d on a number: 0 is falsy *)
orDefault(x, d) == IF x = 0 THEN d ELSE x

(* Math.max(1, pagination.page || 1) *)
normalPage(pagination) == Max(1, orDefault(pagination.page, 1))

(* Math.min(100, Math.max(1, pagination.limit || 10)) *)
normalLimit(pagination) == Min(100, Max(1, orDefault(pagination.limit, 10)))

(* mutant of ceilDiv: the quotient is rounded down *)
ceilDiv_floor(total, limit) == total \div limit

(* Math.ceil(total / limit) for total >= 0 and limit >= 1 *)
ceilDiv(total, limit) == (total + limit - 1) \div limit

(* the priority column is an enum: its values sort in the order of declaration *)
priorityRank(priority) ==
  CASE priority = LOW -> 1 [] priority = MEDIUM -> 2
    [] priority = HIGH -> 3 [] priority = URGENT -> 4

sortKey(task, sortBy) == IF sortBy = "id" THEN task.id ELSE priorityRank(task.priority)

NoSorting == [sortBy |-> Undefined, sortOrder |-> Undefined]

(* the sequences that hold every row once: the orders a query without ORDER BY
   can return its rows in *)
anyOrder(rows) ==
  {f \in [1..Cardinality(rows) -> rows] :
     \A i \in DOMAIN f, j \in DOMAIN f : i # j => f[i] # f[j]}

(* if (sorting.sortBy) qb.orderBy(`task.${sorting.sortBy}`, sorting.sortOrder || 'ASC'):
   the orders the store can return the rows in; rows that tie on the sort key come
   in any order, and without sortBy there is no ORDER BY at all *)
orderings(rows, sorting) ==
  IF sorting.sortBy = Undefined THEN anyOrder(rows)
  ELSE {f \in anyOrder(rows) :
          \A i \in DOMAIN f, j \in DOMAIN f :
            i < j => IF sorting.sortOrder = "DESC"
                     THEN sortKey(f[i], sorting.sortBy) >= sortKey(f[j], sorting.sortBy)
                     ELSE sortKey(f[i], sorting.sortBy) <= sortKey(f[j], sorting.sortBy)}

(* OFFSET skip LIMIT take on the ordered rows *)
skipTake(rows, skip, take) == SubSeq(rows, skip + 1, Min(Len(rows), skip + take))

(* the pages a store query with the given offset and limit can return: a limit of
   0 is falsy, for which the query builder may leave the LIMIT clause out *)
storePages(rows, skip, take) ==
  IF take = 0 THEN {<<>>, SubSeq(rows, skip + 1, Len(rows))}
  ELSE {skipTake(rows, skip, take)}

(* the object getProjectTasks returns; query is the offset and limit it applied *)
envelope(data, total, page, limit) ==
  [data |-> data, total |-> total, page |-> page, limit |-> limit,
   totalPages |-> ceilDiv(total, limit),
   hasNextPage |-> page < ceilDiv(total, limit),
   hasPreviousPage |-> page > 1,
   query |-> [skip |-> (page - 1) * limit, take |-> limit]]

(* qb.orderBy(`task.${sorting.sortBy}`, ...): the value of the query string goes
   into the ORDER BY clause as it is, and the store fails the query when it names
   no column of tasks; the error middleware answers with 500 *)
isTaskColumn(sortBy) ==
  sortBy \in {Undefined, "id", "project_id", "title", "status", "priority",
              "assignee_id", "completed_at", "created_by", "description"}

(* GET /projects/:projectId/tasks with the query parameters page and limit and no
   filter, so that every task of the project matches: TasksController.findAll
   reads the query and calls getProjectTasks *)
getProjectTasks(projectId, userId, query, sorting) ==
  LET req == [projectId |-> projectId, query |-> query, sorting |-> sorting]
      reply(status, data) == response' = Respond("getProjectTasks", userId, req, status, data)
      page == normalPage(fromQuery(query))
      limit == normalLimit(fromQuery(query))
  IN /\ IF findProject(projectId) = {} THEN reply(NotFound, {})
        ELSE LET project == CHOOSE p \in findProject(projectId) : TRUE
             IN IF ~hasAccess(project.organization_id, userId) THEN reply(Forbidden, {})
                ELSE IF ~isTaskColumn(sorting.sortBy) THEN reply(InternalError, {})
                ELSE \E order \in orderings(tasksOfProject(projectId), sorting) :
                       reply(OK, {envelope(skipTake(order, (page - 1) * limit, limit),
                                           Len(order), page, limit)})
     /\ UNCHANGED <<projects, tasks, now>>
     /\ tasksFrame

(* the route called on its own, outside a sequence of page reads *)
findAll(projectId, userId, query, sorting) ==
  /\ getProjectTasks(projectId, userId, query, sorting)
  /\ sequential

(* a row of users as the store returns it: every column of the entity, the
   password hash included (no column is declared select: false) *)
userRow(userId) ==
  [id |-> userId, email |-> UserEmail(userId), username |-> userId,
   password_hash |-> "hash"]

(* relations: ['project', 'assignee', ...]: the task with its joined assignee *)
withAssignee(task) ==
  task @@ [assignee |-> {userRow(u) : u \in {task.assignee_id} \cap Users}]

getTaskById(taskId, userId) ==
  LET req == [taskId |-> taskId]
      reply(status, data) == response' = Respond("getTaskById", userId, req, status, data)
  IN /\ IF findTask(taskId) = {} THEN reply(NotFound, {})
        ELSE LET task == CHOOSE t \in findTask(taskId) : TRUE
             IN IF ~hasAccess(projectOfTask(task).organization_id, userId)
                THEN reply(Forbidden, {})
                ELSE reply(OK, {withAssignee(task)})
     /\ UNCHANGED <<projects, tasks, now>>
     /\ tasksFrame
     /\ sequential

(* new Date() is read exactly when the update moves the task into DONE *)
readsClock(dtoStatus, taskStatus) == dtoStatus = DONE /\ taskStatus # DONE

(* the completed_at property of the loaded entity after the DONE branches *)
completedAtOnEntity(dtoStatus, task, date) ==
  IF dtoStatus = DONE /\ task.status # DONE THEN date
  ELSE IF dtoStatus # DONE /\ task.status = DONE THEN UndefinedDate
  ELSE task.completed_at

(* mutant of applyDto: an absent priority is written as the default *)
applyDto_defaultPriority(task, dto) ==
  [task EXCEPT
     !.title = IF dto.title # Undefined THEN dto.title ELSE @,
     !.status = IF dto.status # Undefined THEN dto.status ELSE @,
     !.priority = IF dto.priority # Undefined THEN dto.priority ELSE MEDIUM,
     !.assignee_id = IF dto.assigneeId # Undefined THEN dto.assigneeId ELSE @]

(* updateData and Object.assign(task, updateData): the fields of the DTO that are
   not undefined *)
applyDto(task, dto) ==
  [task EXCEPT
     !.title = IF dto.title # Undefined THEN dto.title ELSE @,
     !.status = IF dto.status # Undefined THEN dto.status ELSE @,
     !.priority = IF dto.priority # Undefined THEN dto.priority ELSE @,
     !.assignee_id = IF dto.assigneeId # Undefined THEN dto.assigneeId ELSE @]

(* taskRepository.save(task) of a loaded entity: an UPDATE of the columns whose
   property differs from the row; a property that is undefined is skipped *)
saveTask(rows, entity) ==
  {IF t.id = entity.id
   THEN [entity EXCEPT !.completed_at = IF @ = UndefinedDate THEN t.completed_at ELSE @]
   ELSE t : t \in rows}

updateTaskAs(op, taskId, userId, dto) ==
  LET req == [taskId |-> taskId, dto |-> dto]
      deny(status) == /\ response' = Respond(op, userId, req, status, {})
                      /\ UNCHANGED <<tasks, now>>
  IN /\ IF findTask(taskId) = {} THEN deny(NotFound)
        ELSE LET task == CHOOSE t \in findTask(taskId) : TRUE
                 orgId == projectOfTask(task).organization_id
             IN IF ~hasAccess(orgId, userId) THEN deny(Forbidden)
                ELSE IF rejectsAssignee(orgId, dto.assigneeId) THEN deny(BadRequest)
                ELSE /\ readsClock(dto.status, task.status) => now <= MaxClock
                     /\ LET entity == applyDto(
                              [task EXCEPT !.completed_at =
                                 completedAtOnEntity(dto.status, task, now)], dto)
                        IN /\ tasks' = saveTask(tasks, entity)
                           /\ response' = Respond(op, userId, req, OK, {entity})
                     /\ now' = IF readsClock(dto.status, task.status) THEN now + 1 ELSE now
     /\ UNCHANGED projects
     /\ tasksFrame
     /\ sequential

NoDto == [title |-> Undefined, status |-> Undefined, priority |-> Undefined,
          assigneeId |-> Undefined]

updateTask(taskId, userId, dto) == updateTaskAs("updateTask", taskId, userId, dto)

assignTask(taskId, userId, assigneeId) ==
  updateTaskAs("assignTask", taskId, userId, [NoDto EXCEPT !.assigneeId = assigneeId])

updateTaskStatus(taskId, userId, newStatus) ==
  updateTaskAs("updateTaskStatus", taskId, userId, [NoDto EXCEPT !.status = newStatus])

deleteTask(taskId, userId) ==
  LET req == [taskId |-> taskId]
      deny(status) == /\ response' = Respond("deleteTask", userId, req, status, {})
                      /\ UNCHANGED tasks
  IN /\ IF findTask(taskId) = {} THEN deny(NotFound)
        ELSE LET task == CHOOSE t \in findTask(taskId) : TRUE
             IN IF ~hasAccess(projectOfTask(task).organization_id, userId)
                THEN deny(Forbidden)
                ELSE /\ tasks' = tasks \ {task}
                     /\ response' = Respond("deleteTask", userId, req, OK, {})
     /\ UNCHANGED <<projects, now>>
     /\ tasksFrame
     /\ sequential

(* ---- ProjectsService ---- *)

ProjectNames == {"p", "q"}

projectStats(projectId) ==
  [totalTasks |-> Cardinality(tasksOfProject(projectId)),
   completedTasks |-> Cardinality({t \in tasksOfProject(projectId) : t.status = DONE})]

createProject(orgId, userId, name) ==
  LET req == [orgId |-> orgId]
  IN /\ IF ~hasAccess(orgId, userId)
        THEN /\ response' = Respond("createProject", userId, req, Forbidden, {})
             /\ UNCHANGED projects
        ELSE /\ Cardinality(projects) < MaxProjects
             /\ LET project == [id |-> NewId({p.id : p \in projects}, ProjectIds),
                                organization_id |-> orgId, name |-> name,
                                created_by |-> userId]
                IN /\ projects' = projects \cup {project}
                   /\ response' = Respond("createProject", userId, req, OK, {project})
     /\ UNCHANGED <<tasks, now>>
     /\ tasksFrame
     /\ sequential

getOrganizationProjects(orgId, userId, query) ==
  LET req == [orgId |-> orgId, query |-> query]
      reply(status, data) ==
        response' = Respond("getOrganizationProjects", userId, req, status, data)
      pagination == fromQuery(query)
      skip == (orDefault(pagination.page, 1) - 1) * orDefault(pagination.limit, 10)
      take == orDefault(pagination.limit, 10)
      rows == {[id |-> p.id, name |-> p.name,
                taskCount |-> Cardinality(tasksOfProject(p.id))] :
               p \in {q \in projects : q.organization_id = orgId}}
  IN /\ IF ~hasAccess(orgId, userId) THEN reply(Forbidden, {})
        ELSE IF skip < 0 \/ take < 0 THEN reply(InternalError, {})
        ELSE \E order \in anyOrder(rows) :
               reply(OK, {[data |-> skipTake(order, skip, take), total |-> Len(order),
                           query |-> [skip |-> skip, take |-> take]]})
     /\ UNCHANGED <<projects, tasks, now>>
     /\ tasksFrame
     /\ sequential

(* getProjectById and getProjectStats: the lookup, the membership check and the
   figures; getProjectById merges the project into them *)
readProject(op, projectId, userId) ==
  LET req == [projectId |-> projectId]
      reply(status, data) == response' = Respond(op, userId, req, status, data)
  IN /\ IF findProject(projectId) = {} THEN reply(NotFound, {})
        ELSE LET project == CHOOSE p \in findProject(projectId) : TRUE
             IN IF ~hasAccess(project.organization_id, userId) THEN reply(Forbidden, {})
                ELSE IF op = "getProjectById"
                     THEN reply(OK, {[project |-> project, stats |-> projectStats(projectId)]})
                     ELSE reply(OK, {projectStats(projectId)})
     /\ UNCHANGED <<projects, tasks, now>>
     /\ tasksFrame
     /\ sequential

getProjectStats(projectId, userId) == readProject("getProjectStats", projectId, userId)

getProjectById(projectId, userId) == readProject("getProjectById", projectId, userId)

updateProject(projectId, userId, dtoName) ==
  LET req == [projectId |-> projectId]
      deny(status) == /\ response' = Respond("updateProject", userId, req, status, {})
                      /\ UNCHANGED projects
  IN /\ IF findProject(projectId) = {} THEN deny(NotFound)
        ELSE LET project == CHOOSE p \in findProject(projectId) : TRUE
             IN IF ~hasAccess(project.organization_id, userId) THEN deny(Forbidden)
                ELSE LET saved == [project EXCEPT
                                     !.name = IF dtoName # Undefined THEN dtoName ELSE @]
                     IN /\ projects' = (projects \ {project}) \cup {saved}
                        /\ response' = Respond("updateProject", userId, req, OK, {saved})
     /\ UNCHANGED <<tasks, now>>
     /\ tasksFrame
     /\ sequential

deleteProject(projectId, userId) ==
  LET req == [projectId |-> projectId]
      deny(status) == /\ response' = Respond("deleteProject", userId, req, status, {})
                      /\ UNCHANGED <<projects, tasks>>
  IN /\ IF findProject(projectId) = {} THEN deny(NotFound)
        ELSE LET project == CHOOSE p \in findProject(projectId) : TRUE
             IN IF roleOf(project.organization_id, userId) \notin {OWNER, ADMIN}
                THEN deny(Forbidden)
                ELSE /\ tasks' = tasks \ tasksOfProject(projectId)
                     /\ projects' = projects \ {project}
                     /\ response' = Respond("deleteProject", userId, req, OK, {})
     /\ UNCHANGED now
     /\ tasksFrame
     /\ sequential

(* ---- the payloads of the project and task routes ---- *)

CreateTaskDtos ==
  { [title |-> "t", status |-> Undefined, priority |-> Undefined,
     assigneeId |-> Undefined],
    [title |-> "t", status |-> Undefined, priority |-> LOW, assigneeId |-> "u3"],
    [title |-> "t", status |-> Undefined, priority |-> Undefined,
     assigneeId |-> "u2"] }

(* every status and every priority a CreateTaskDto can carry, each one optional *)
CreateTaskPayloads ==
  { [title |-> "t", status |-> s, priority |-> p, assigneeId |-> Undefined] :
      s \in TaskStatus \cup {Undefined}, p \in TaskPriority \cup {Undefined} }

UpdateTaskDtos ==
  { [NoDto EXCEPT !.title = "s"],
    [NoDto EXCEPT !.priority = HIGH],
    [NoDto EXCEPT !.title = "s", !.status = DONE],
    [NoDto EXCEPT !.status = REVIEW, !.assigneeId = Null],
    [NoDto EXCEPT !.assigneeId = "u2"] }

(* Two organizations: u1 owns Acme and u3 is a member of it, u2 owns Beta and has
   no membership row in Acme *)
TwoOrganizations ==
  /\ organizations = {Acme, Beta}
  /\ organization_members =
       {[organization_id |-> Acme.id, user_id |-> "u1", role |-> OWNER],
        [organization_id |-> Acme.id, user_id |-> "u3", role |-> MEMBER],
        [organization_id |-> Beta.id, user_id |-> "u2", role |-> OWNER]}

Roadmap == [id |-> 1, organization_id |-> Acme.id, name |-> "p", created_by |-> "u1"]

(* SpecTask: the tasks of one project of Acme *)
InitTask ==
  /\ TwoOrganizations
  /\ projects = {Roadmap}
  /\ tasks = {}
  /\ comments = {}
  /\ mentions = {}
  /\ custom_properties = {}
  /\ custom_property_values = {}
  /\ NoRequests

NextTask ==
  \/ \E projectId \in ProjectIds, userId \in Users, dto \in CreateTaskDtos :
       createTask(projectId, userId, dto)
  \/ \E taskId \in TaskIds, userId \in Users, dto \in UpdateTaskDtos :
       updateTask(taskId, userId, dto)
  \/ \E taskId \in TaskIds, userId \in Users, assigneeId \in {"u2", "u3", Null} :
       assignTask(taskId, userId, assigneeId)
  \/ \E taskId \in TaskIds, userId \in Users, newStatus \in TaskStatus :
       updateTaskStatus(taskId, userId, newStatus)
  \/ \E taskId \in TaskIds, userId \in Users : getTaskById(taskId, userId)
  \/ \E taskId \in TaskIds, userId \in Users : deleteTask(taskId, userId)

SpecTask == InitTask /\ [][NextTask]_vars

(* SpecCreate: tasks of one project of Acme created from every payload *)
NextCreate ==
  \/ \E projectId \in ProjectIds, userId \in Users, dto \in CreateTaskPayloads :
       createTask(projectId, userId, dto)
  \/ \E taskId \in TaskIds, userId \in Users : deleteTask(taskId, userId)

SpecCreate == InitTask /\ [][NextCreate]_vars

(* SpecAccess: every project and task route, by members and by strangers *)
InitAccess ==
  /\ TwoOrganizations
  /\ NoWork
  /\ NoRequests

NextAccess ==
  \/ \E orgId \in OrgIds, userId \in Users, name \in ProjectNames :
       createProject(orgId, userId, name)
  \/ \E orgId \in OrgIds, userId \in Users : getOrganizationProjects(orgId, userId, NoQuery)
  \/ \E projectId \in ProjectIds, userId \in Users : getProjectById(projectId, userId)
  \/ \E projectId \in ProjectIds, userId \in Users : getProjectStats(projectId, userId)
  \/ \E projectId \in ProjectIds, userId \in Users, dtoName \in ProjectNames \cup {Undefined} :
       updateProject(projectId, userId, dtoName)
  \/ \E projectId \in ProjectIds, userId \in Users : deleteProject(projectId, userId)
  \/ \E projectId \in ProjectIds, userId \in Users :
       createTask(projectId, userId,
                  [title |-> "t", status |-> Undefined, priority |-> Undefined,
                   assigneeId |-> Undefined])
  \/ \E projectId \in ProjectIds, userId \in Users :
       findAll(projectId, userId, NoQuery, NoSorting)
  \/ \E taskId \in TaskIds, userId \in Users : getTaskById(taskId, userId)
  \/ \E taskId \in TaskIds, userId \in Users :
       updateTask(taskId, userId, [NoDto EXCEPT !.title = "s"])
  \/ \E taskId \in TaskIds, userId \in Users : assignTask(taskId, userId, "u3")
  \/ \E taskId \in TaskIds, userId \in Users : updateTaskStatus(taskId, userId, DONE)
  \/ \E taskId \in TaskIds, userId \in Users : deleteTask(taskId, userId)

SpecAccess == InitAccess /\ [][NextAccess]_vars


-----------------------------------------------------------------------------
(* Claims about tasks and projects *)

(* C2: in every state reached by createTask, updateTask, updateTaskStatus and
   assignTask calls, every task has completed_at non-null if and only if its
   status is DONE.  The rows refute it: leaving DONE keeps the timestamp. *)
C2_CompletedAtIffDone ==
  \A t \in tasks : (t.completed_at # NullDate) <=> (t.status = DONE)

ProjectTaskOps ==
  {"createProject", "getOrganizationProjects", "getProjectById", "updateProject",
   "deleteProject", "getProjectStats", "createTask", "getProjectTasks", "getTaskById",
   "updateTask", "deleteTask", "assignTask", "updateTaskStatus"}

(* the organizations that the existing entity named by a request is chained under *)
organizationsOf(req) ==
  IF "orgId" \in DOMAIN req
    THEN {o.id : o \in {x \in organizations : x.id = req.orgId}}
  ELSE IF "projectId" \in DOMAIN req
    THEN {p.organization_id : p \in findProject(req.projectId)}
  ELSE IF "taskId" \in DOMAIN req
    THEN {projectOfTask(t).organization_id : t \in findTask(req.taskId)}
  ELSE {}

C3_Step ==
  LET r == response'
  IN (/\ r.op \in ProjectTaskOps
      /\ organizationsOf(r.req) # {}
      /\ \A x \in organizationsOf(r.req) : findMember(x, r.actor) = {})
     => /\ r.status = Forbidden
        /\ r.data = {}
        /\ UNCHANGED store

(* C3: a project or task operation on an existing entity of organization X by an
   actor without a membership row in X answers Forbidden, returns no data and
   leaves every table unchanged. *)
C3_StrangerForbidden == [][C3_Step]_vars

(* u2, who is no member of Acme, was refused the deletion of a task of Acme *)
C3_Witness ==
  /\ response.op = "deleteTask"
  /\ response.actor = "u2"
  /\ response.status = Forbidden
  /\ \E t \in findTask(response.req.taskId) :
       projectOfTask(t).organization_id = Acme.id

C10_Step ==
  LET r == response'
  IN (r.op = "updateTask" /\ r.status = OK)
     => \E before \in tasks, after \in tasks' :
          /\ before.id = r.req.taskId
          /\ after.id = before.id
          /\ tasks' \ {after} = tasks \ {before}
          /\ after.project_id = before.project_id
          /\ after.created_by = before.created_by
          /\ r.req.dto.title = Undefined => after.title = before.title
          /\ r.req.dto.status = Undefined => after.status = before.status
          /\ r.req.dto.priority = Undefined => after.priority = before.priority
          /\ r.req.dto.assigneeId = Undefined => after.assignee_id = before.assignee_id
          /\ after.completed_at # before.completed_at
               => (before.status = DONE) # (after.status = DONE)
          /\ r.req.dto.status = Undefined => after.completed_at = before.completed_at
          /\ UNCHANGED <<organizations, organization_members, projects, comments,
                         mentions, custom_properties, custom_property_values>>

(* C10: a successful updateTask changes, in the task rows, only the fields of its
   payload, and completed_at only when the status crosses the DONE boundary; a
   payload without status leaves status and completed_at as they were. *)
C10_UpdateTaskFrame == [][C10_Step]_vars

(* a payload without status was applied to a DONE task, which kept its timestamp *)
C10_Witness ==
  /\ response.op = "updateTask"
  /\ response.status = OK
  /\ response.req.dto.status = Undefined
  /\ \E t \in findTask(response.req.taskId) :
       t.status = DONE /\ t.completed_at # NullDate

-----------------------------------------------------------------------------
(* Comments and mentions: MentionParserUtil and CommentsService *)

CommentIds == 1..MaxComments

(* User.username; a comment content, like a username, is a sequence of characters *)
Username(u) ==
  CASE u = "u1" -> <<"a">>
    [] u = "u2" -> <<"b">>
    [] OTHER -> <<"c">>

(* "@[a]@[b]", "@[b]@[user:c]", "@[b] @[b]@a", "@[z]@[" and "@[user:]" *)
Contents ==
  { <<"@", "[", "a", "]", "@", "[", "b", "]">>,
    <<"@", "[", "b", "]", "@", "[", "u", "s", "e", "r", ":", "c", "]">>,
    <<"@", "[", "b", "]", " ", "@", "[", "b", "]", "@", "a">>,
    <<"@", "[", "z", "]", "@", "[">>,
    <<"@", "[", "u", "s", "e", "r", ":", "]">> }

UserPrefix == <<"u", "s", "e", "r", ":">>

(* the position of the first "]" at or after k, 0 when there is none *)
RECURSIVE closing(_, _)
closing(content, k) ==
  IF k > Len(content) THEN 0
  ELSE IF content[k] = "]" THEN k
  ELSE closing(content, k + 1)

(* ([^\]]+)\] tried at k: the position of the "]" that ends the match, 0 on failure *)
identifierEnd(content, k) ==
  IF closing(content, k) > k THEN closing(content, k) ELSE 0

(* the regex /@\[(?:user:)?([^\]]+)\]/g run over the content from position i:
   the identifiers of the matches, in order *)
RECURSIVE matchAll(_, _)
matchAll(content, i) ==
  IF i > Len(content) THEN <<>>
  ELSE IF content[i] = "@" /\ i + 1 <= Len(content) /\ content[i + 1] = "["
    THEN LET afterPrefix == i + 2 + Len(UserPrefix)
             hasPrefix == /\ afterPrefix - 1 <= Len(content)
                          /\ SubSeq(content, i + 2, afterPrefix - 1) = UserPrefix
             start == IF hasPrefix /\ identifierEnd(content, afterPrefix) # 0
                      THEN afterPrefix ELSE i + 2
             stop == identifierEnd(content, start)
         IN IF stop # 0
            THEN <<SubSeq(content, start, stop - 1)>> \o matchAll(content, stop + 1)
            ELSE matchAll(content, i + 1)
  ELSE matchAll(content, i + 1)

(* MentionParserUtil.parse: every identifier is taken as a username *)
parse(content) == matchAll(content, 1)

(* where user.username IN (:...usernames): each matching user once *)
usersNamed(usernames) ==
  {u \in Users : \E i \in 1..Len(usernames) : usernames[i] = Username(u)}

findComment(commentId) == {c \in comments : c.id = commentId}
mentionsOf(rows, commentId) == {m \in rows : m.comment_id = commentId}
taskOfComment(comment) == CHOOSE t \in tasks : t.id = comment.task_id

(* manager.save(mentions): one new row per user.  The generated id of a row is
   kept as its rank among the rows of the same comment and user. *)
insertMentions(rows, commentId, users) ==
  rows \cup {[comment_id |-> commentId, mentioned_user_id |-> u,
              copy |-> 1 + Cardinality({m \in mentionsOf(rows, commentId) :
                                          m.mentioned_user_id = u})] : u \in users}

(* mutant of deleteMentions: the old rows are kept *)
deleteMentions_keepOld(rows, commentId) == rows

(* manager.delete(Mention, { comment_id: commentId }) *)
deleteMentions(rows, commentId) == rows \ mentionsOf(rows, commentId)

commentsFrame == UNCHANGED <<organizations, organization_members, projects, tasks,
                             custom_properties, custom_property_values, now>>

createComment(taskId, userId, content) ==
  LET req == [taskId |-> taskId]
      deny(status) == /\ response' = Respond("createComment", userId, req, status, {})
                      /\ UNCHANGED <<comments, mentions>>
  IN /\ IF findTask(taskId) = {} THEN deny(NotFound)
        ELSE LET task == CHOOSE t \in findTask(taskId) : TRUE
             IN IF ~hasAccess(projectOfTask(task).organization_id, userId)
                THEN deny(Forbidden)
                ELSE /\ Cardinality(comments) < MaxComments
                     /\ LET comment == [id |-> NewId({c.id : c \in comments}, CommentIds),
                                        task_id |-> taskId, user_id |-> userId,
                                        content |-> content]
                        IN /\ comments' = comments \cup {comment}
                           /\ mentions' = insertMentions(mentions, comment.id,
                                                         usersNamed(parse(content)))
                           /\ response' = Respond("createComment", userId, req, OK, {comment})
     /\ commentsFrame
     /\ sequential

getTaskComments(taskId, userId, query) ==
  LET req == [taskId |-> taskId, query |-> query]
      reply(status, data) == response' = Respond("getTaskComments", userId, req, status, data)
      pagination == fromQuery(query)
      skip == (pagination.page - 1) * pagination.limit
      take == pagination.limit
      rows == {[comment |-> c, mentions |-> mentionsOf(mentions, c.id)] :
               c \in {x \in comments : x.task_id = taskId}}
  IN /\ IF findTask(taskId) = {} THEN reply(NotFound, {})
        ELSE LET task == CHOOSE t \in findTask(taskId) : TRUE
             IN IF ~hasAccess(projectOfTask(task).organization_id, userId)
                THEN reply(Forbidden, {})
                ELSE IF skip < 0 \/ take < 0 THEN reply(InternalError, {})
                ELSE \E order \in anyOrder(rows) :
                     \E data \in storePages(order, skip, take) :
                       reply(OK, {[data |-> data, total |-> Len(order),
                                   query |-> [skip |-> skip, take |-> take]]})
     /\ UNCHANGED <<comments, mentions>>
     /\ commentsFrame
     /\ sequential

updateComment(commentId, userId, content) ==
  LET req == [commentId |-> commentId]
      deny(status) == /\ response' = Respond("updateComment", userId, req, status, {})
                      /\ UNCHANGED <<comments, mentions>>
  IN /\ IF findComment(commentId) = {} THEN deny(NotFound)
        ELSE LET comment == CHOOSE c \in findComment(commentId) : TRUE
                 saved == [comment EXCEPT !.content = content]
             IN IF comment.user_id # userId THEN deny(Forbidden)
                ELSE /\ comments' = (comments \ {comment}) \cup {saved}
                     /\ mentions' = insertMentions(deleteMentions(mentions, commentId),
                                                   commentId, usersNamed(parse(content)))
                     /\ response' = Respond("updateComment", userId, req, OK, {saved})
     /\ commentsFrame
     /\ sequential

(* mutant of mayDeleteComment: every member of the organization may delete *)
mayDeleteComment_anyMember(comment, userId, role) ==
  comment.user_id = userId \/ role # "none"

(* deleteComment: the author, or an ADMIN or OWNER of the organization *)
mayDeleteComment(comment, userId, role) ==
  ~(comment.user_id # userId /\ role \notin {ADMIN, OWNER})

(* commentRepository.delete(commentId): mentions.comment_id references the comment
   with no ON DELETE action, so the store refuses while mention rows exist *)
deleteComment(commentId, userId) ==
  LET req == [commentId |-> commentId]
      deny(status) == /\ response' = Respond("deleteComment", userId, req, status, {})
                      /\ UNCHANGED <<comments, mentions>>
  IN /\ IF findComment(commentId) = {} THEN deny(NotFound)
        ELSE LET comment == CHOOSE c \in findComment(commentId) : TRUE
                 orgId == projectOfTask(taskOfComment(comment)).organization_id
             IN IF ~mayDeleteComment(comment, userId, roleOf(orgId, userId))
                THEN deny(Forbidden)
                ELSE IF mentionsOf(mentions, commentId) # {} THEN deny(InternalError)
                ELSE /\ comments' = comments \ {comment}
                     /\ UNCHANGED mentions
                     /\ response' = Respond("deleteComment", userId, req, OK, {})
     /\ commentsFrame
     /\ sequential

-----------------------------------------------------------------------------
(* Custom properties: CustomPropertiesService *)

PropertyIds == 1..MaxProperties

(* enum PropertyType, enum EntityType *)
TEXT == "text"
USER == "user"
PropertyType == {TEXT, "number", "date", "datetime", "select", "multi_select", USER}
TASK == "task"
PROJECT == "project"
EntityType == {TASK, PROJECT}

findProperty(propertyId) == {c \in custom_properties : c.id = propertyId}
findValue(entityId, propertyId) ==
  {v \in custom_property_values : v.entity_id = entityId /\ v.custom_property_id = propertyId}

propertiesFrame == UNCHANGED <<organizations, organization_members, projects, tasks,
                               comments, mentions, now>>

(* mutant of mayManageProperties: a MEMBER may manage the definitions too *)
mayManageProperties_members(role) == role \in {OWNER, ADMIN, MEMBER}

(* !member || ![OWNER, ADMIN].includes(member.role) refuses the caller *)
mayManageProperties(role) == role \in {OWNER, ADMIN}

defineCustomProperty(orgId, userId, dto) ==
  LET req == [orgId |-> orgId]
  IN /\ IF ~mayManageProperties(roleOf(orgId, userId))
        THEN /\ response' = Respond("defineCustomProperty", userId, req, Forbidden, {})
             /\ UNCHANGED custom_properties
        ELSE /\ Cardinality(custom_properties) < MaxProperties
             /\ LET prop == [id |-> NewId({c.id : c \in custom_properties}, PropertyIds),
                             organization_id |-> orgId, property_name |-> dto.name,
                             property_type |-> dto.type, entity_type |-> dto.entityType]
                IN /\ custom_properties' = custom_properties \cup {prop}
                   /\ response' = Respond("defineCustomProperty", userId, req, OK, {prop})
     /\ UNCHANGED custom_property_values
     /\ propertiesFrame
     /\ sequential

(* the service takes no user: userId is the authenticated caller of the route *)
getOrganizationProperties(orgId, entityType, userId) ==
  /\ response' = Respond("getOrganizationProperties", userId, [orgId |-> orgId], OK,
                         {c \in custom_properties :
                            c.organization_id = orgId /\ c.entity_type = entityType})
  /\ UNCHANGED <<custom_properties, custom_property_values>>
  /\ propertiesFrame
  /\ sequential

updatePropertyDefinition(propertyId, userId, dtoName) ==
  LET req == [propertyId |-> propertyId]
      deny(status) == /\ response' = Respond("updatePropertyDefinition", userId, req, status, {})
                      /\ UNCHANGED custom_properties
  IN /\ IF findProperty(propertyId) = {} THEN deny(NotFound)
        ELSE LET prop == CHOOSE c \in findProperty(propertyId) : TRUE
                 saved == [prop EXCEPT
                             !.property_name = IF dtoName # Undefined THEN dtoName ELSE @]
             IN IF ~mayManageProperties(roleOf(prop.organization_id, userId))
                THEN deny(Forbidden)
                ELSE /\ custom_properties' = (custom_properties \ {prop}) \cup {saved}
                     /\ response' = Respond("updatePropertyDefinition", userId, req, OK, {saved})
     /\ UNCHANGED custom_property_values
     /\ propertiesFrame
     /\ sequential

(* customPropertyRepository.delete(propertyId): custom_property_values references
   the property with no ON DELETE action *)
propertyReferenced_never(propertyId) == FALSE

(* CustomPropertyValue.customProperty: the ManyToOne on custom_property_id names no
   onDelete, so the store refuses to delete a definition that a value row references *)
propertyReferenced(propertyId) ==
  \E v \in custom_property_values : v.custom_property_id = propertyId

deleteProperty(propertyId, userId) ==
  LET req == [propertyId |-> propertyId]
      deny(status) == /\ response' = Respond("deleteProperty", userId, req, status, {})
                      /\ UNCHANGED custom_properties
  IN /\ IF findProperty(propertyId) = {} THEN deny(NotFound)
        ELSE LET prop == CHOOSE c \in findProperty(propertyId) : TRUE
             IN IF ~mayManageProperties(roleOf(prop.organization_id, userId))
                THEN deny(Forbidden)
                ELSE IF propertyReferenced(propertyId)
                THEN deny(InternalError)
                ELSE /\ custom_properties' = custom_properties \ {prop}
                     /\ response' = Respond("deleteProperty", userId, req, OK, {})
     /\ UNCHANGED custom_property_values
     /\ propertiesFrame
     /\ sequential

ValueIds == 1..MaxValues

(* customPropertyValueRepository.create({...}) of a row that gets a generated id *)
newValue(entityId, prop, value) ==
  [id |-> NewId({v.id : v \in custom_property_values}, ValueIds),
   entity_id |-> entityId, entity_type |-> prop.entity_type,
   custom_property_id |-> prop.id, value |-> value]

(* customPropertyValueRepository.save(propertyValue): by primary key, an UPDATE of
   the row that has the id, an INSERT otherwise *)
saveValue(rows, row) == {v \in rows : v.id # row.id} \cup {row}

(* users.id is a uuid column: the lookup of a value that is not a uuid makes the
   store raise, which the error middleware answers with 500; a uuid of no user is
   'User not found' (404) and a user without a membership row is 400.
   the userId argument is not used; custom_property_values.entity_id references
   tasks.id, so the save fails for an entity that is no task *)
setPropertyValue(entityId, propertyId, value, userId) ==
  LET req == [entityId |-> entityId, propertyId |-> propertyId, value |-> value]
      deny(status) == /\ response' = Respond("setPropertyValue", userId, req, status, {})
                      /\ UNCHANGED custom_property_values
  IN /\ IF findProperty(propertyId) = {} THEN deny(NotFound)
        ELSE LET prop == CHOOSE c \in findProperty(propertyId) : TRUE
                 existing == findValue(entityId, propertyId)
                 saved == IF existing = {}
                          THEN newValue(entityId, prop, value)
                          ELSE [(CHOOSE v \in existing : TRUE) EXCEPT !.value = value]
             IN IF prop.property_type = USER /\ value \notin Users \cup {"u9"}
                THEN deny(InternalError)
                ELSE IF prop.property_type = USER /\ value \notin Users
                     THEN deny(NotFound)
                ELSE IF prop.property_type = USER
                        /\ findMember(prop.organization_id, value) = {}
                     THEN deny(BadRequest)
                ELSE IF findTask(entityId) = {} THEN deny(InternalError)
                ELSE /\ existing = {} => Cardinality(custom_property_values) < MaxValues
                     /\ custom_property_values' = saveValue(custom_property_values, saved)
                     /\ response' = Respond("setPropertyValue", userId, req, OK, {saved})
     /\ UNCHANGED custom_properties
     /\ propertiesFrame
     /\ sequential

(* the service takes no user: userId is the authenticated caller of the route *)
getEntityPropertyValues(entityId, entityType, userId) ==
  /\ response' = Respond("getEntityPropertyValues", userId, [entityId |-> entityId], OK,
                         {v \in custom_property_values :
                            v.entity_id = entityId /\ v.entity_type = entityType})
  /\ UNCHANGED <<custom_properties, custom_property_values>>
  /\ propertiesFrame
  /\ sequential

(* ---- the payloads of the custom-property routes ---- *)

PropertyDtos ==
  { [name |-> "n", type |-> TEXT, entityType |-> TASK],
    [name |-> "n", type |-> USER, entityType |-> TASK] }

PropertyNames == {"n", "m"}
(* "v" is a text, "u1" and "u2" are ids of users and "u9" is a uuid of no user *)
PropertyValues == {"v", "u1", "u2", "u9"}

Ship == [id |-> 1, project_id |-> Roadmap.id, title |-> "t", status |-> TODO,
         priority |-> MEDIUM, assignee_id |-> Null, completed_at |-> NullDate,
         created_by |-> "u1", description |-> Null]

(* SpecComment: the comments and the custom properties of one task of Acme; u1 owns
   Acme, u3 has any other role in it and u2 is a stranger to it *)
InitComment ==
  /\ organizations = {Acme, Beta}
  /\ \E r3 \in MemberRole \ {OWNER} :
       organization_members =
         {[organization_id |-> Acme.id, user_id |-> "u1", role |-> OWNER],
          [organization_id |-> Acme.id, user_id |-> "u3", role |-> r3],
          [organization_id |-> Beta.id, user_id |-> "u2", role |-> OWNER]}
  /\ projects = {Roadmap}
  /\ tasks = {Ship}
  /\ comments = {}
  /\ mentions = {}
  /\ custom_properties = {}
  /\ custom_property_values = {}
  /\ NoRequests

NextComment ==
  \/ \E taskId \in TaskIds, userId \in Users, content \in Contents :
       createComment(taskId, userId, content)
  \/ \E taskId \in TaskIds, userId \in Users : getTaskComments(taskId, userId, NoQuery)
  \/ \E commentId \in CommentIds, userId \in Users, content \in Contents :
       updateComment(commentId, userId, content)
  \/ \E commentId \in CommentIds, userId \in Users : deleteComment(commentId, userId)
  \/ \E orgId \in OrgIds, userId \in Users, dto \in PropertyDtos :
       defineCustomProperty(orgId, userId, dto)
  \/ \E orgId \in OrgIds, entityType \in EntityType, userId \in Users :
       getOrganizationProperties(orgId, entityType, userId)
  \/ \E propertyId \in PropertyIds, userId \in Users,
        dtoName \in PropertyNames \cup {Undefined} :
       updatePropertyDefinition(propertyId, userId, dtoName)
  \/ \E propertyId \in PropertyIds, userId \in Users : deleteProperty(propertyId, userId)
  \/ \E entityId \in TaskIds, propertyId \in PropertyIds, value \in PropertyValues,
        userId \in Users :
       setPropertyValue(entityId, propertyId, value, userId)
  \/ \E entityId \in TaskIds, entityType \in EntityType, userId \in Users :
       getEntityPropertyValues(entityId, entityType, userId)

SpecComment == InitComment /\ [][NextComment]_vars

-----------------------------------------------------------------------------
(* Claims about comments, mentions and custom properties *)

CommentPropertyOps ==
  {"createComment", "getTaskComments", "updateComment", "deleteComment",
   "getOrganizationProperties", "updatePropertyDefinition", "deleteProperty",
   "setPropertyValue", "getEntityPropertyValues"}

(* the organizations that the existing entity named by a comment or custom-property
   request is chained under *)
chainOrganizations(req) ==
  IF "commentId" \in DOMAIN req
    THEN {projectOfTask(taskOfComment(c)).organization_id : c \in findComment(req.commentId)}
  ELSE IF "propertyId" \in DOMAIN req
    THEN {c.organization_id : c \in findProperty(req.propertyId)}
  ELSE IF "entityId" \in DOMAIN req
    THEN {projectOfTask(t).organization_id : t \in findTask(req.entityId)}
  ELSE organizationsOf(req)

C4_Step ==
  LET r == response'
  IN (/\ r.op \in CommentPropertyOps
      /\ chainOrganizations(r.req) # {}
      /\ \A x \in chainOrganizations(r.req) : findMember(x, r.actor) = {})
     => /\ r.status = Forbidden
        /\ r.data = {}
        /\ UNCHANGED store

(* C4: a comment or custom-property operation on an entity of organization X by an
   actor without a membership row in X answers Forbidden, returns no data and
   leaves every table unchanged.  getOrganizationProperties, setPropertyValue and
   getEntityPropertyValues never look the caller's membership up. *)
C4_StrangerForbidden == [][C4_Step]_vars

(* the users that the mention tokens of each content name *)
namedUsers(content) ==
  CASE content = <<"@", "[", "a", "]", "@", "[", "b", "]">> -> {"u1", "u2"}
    [] content = <<"@", "[", "b", "]", "@", "[", "u", "s", "e", "r", ":", "c", "]">>
         -> {"u2", "u3"}
    [] content = <<"@", "[", "b", "]", " ", "@", "[", "b", "]", "@", "a">> -> {"u2"}
    [] OTHER -> {}

C7_Step ==
  LET r == response'
  IN (r.op = "updateComment" /\ r.status = OK)
     => \E c \in comments' :
          /\ c.id = r.req.commentId
          /\ {m.mentioned_user_id : m \in mentionsOf(mentions', c.id)} = namedUsers(c.content)
          /\ Cardinality(mentionsOf(mentions', c.id)) = Cardinality(namedUsers(c.content))
          /\ mentions' \ mentionsOf(mentions', c.id) = mentions \ mentionsOf(mentions, c.id)

(* C7: after a successful updateComment the mention rows of the comment are exactly
   one row per existing user named by a mention token of the new content; the rows
   of the old content are gone and no user has two rows. *)
C7_MentionsRegenerated == [][C7_Step]_vars

(* an update to "@[b]@[user:c]" has left exactly the rows of u2 and u3 *)
C7_Witness ==
  /\ response.op = "updateComment"
  /\ response.status = OK
  /\ \E c \in findComment(response.req.commentId) :
       /\ namedUsers(c.content) = {"u2", "u3"}
       /\ {m.mentioned_user_id : m \in mentionsOf(mentions, c.id)} = {"u2", "u3"}
       /\ Cardinality(mentionsOf(mentions, c.id)) = 2

-----------------------------------------------------------------------------
(* Transactions: dataSource.transaction(async manager => ...).  A slot runs one
   request at a time and is suspended at every store round trip.  The rows
   written through the manager stay in tx[p] until the callback returns and the
   transaction commits; a throw inside the callback rolls them back.  Other
   requests read the committed tables (READ COMMITTED). *)

EmptyTx == [open |-> TRUE, organizations |-> {}, organization_members |-> {},
            comments |-> {}, deleted |-> {}, inserted |-> {}]

NoRequest == [op |-> "none", userId |-> "none", name |-> NoName, taskId |-> 0,
              commentId |-> 0, content |-> <<>>, status |-> 0, failedAt |-> "none"]

inFlight(op) == {q \in Slots : pc[q] \notin {"idle", "done"} /\ local[q].op = op}

others(p) == {q \in Slots : q # p /\ tx[q].open}

txStore == UNCHANGED store

txGoto(p, step) ==
  /\ pc' = [pc EXCEPT ![p] = step]
  /\ UNCHANGED local

(* the request ends: its status, and for a failure the step that failed *)
txFinish(p, status) ==
  /\ pc' = [pc EXCEPT ![p] = "done"]
  /\ local' = [local EXCEPT ![p] = [@ EXCEPT !.status = status, !.failedAt = pc[p]]]

txArrives(p, request) ==
  /\ pc[p] \in {"idle", "done"}
  /\ ~tx[p].open
  /\ pc' = [pc EXCEPT ![p] = "check"]
  /\ local' = [local EXCEPT ![p] = request]
  /\ UNCHANGED <<tx, response, now>>
  /\ txStore

(* ---- createOrganization ---- *)

(* const existingOrg = await findOne({ where: { slug } }), then the transaction begins *)
checkSlug(p) ==
  /\ pc[p] = "check"
  /\ local[p].op = "createOrganization"
  /\ IF slugTaken(slugify(local[p].name))
     THEN txFinish(p, Conflict) /\ UNCHANGED tx
     ELSE txGoto(p, "saveOrganization") /\ tx' = [tx EXCEPT ![p] = EmptyTx]
  /\ UNCHANGED <<response, now>>
  /\ txStore

(* mutant of saveOrganization: the row is saved through the repository, outside
   the transaction *)
saveOrganization_outsideTransaction(p) ==
  /\ pc[p] = "saveOrganization"
  /\ LET org == [id |-> NewId({o.id : o \in organizations}, OrgIds),
                 name |-> local[p].name, slug |-> slugify(local[p].name)]
     IN /\ organizations' = organizations \cup {org}
        /\ tx' = [tx EXCEPT ![p].organizations = {org}]
  /\ txGoto(p, "saveOwner")
  /\ UNCHANGED <<organization_members, projects, tasks, comments, mentions,
                 custom_properties, custom_property_values, response, now>>

(* await manager.save(organization): the insert waits for a transaction that holds
   an uncommitted row of the same slug, and violates the unique index when a
   committed row has it *)
saveOrganization(p) ==
  /\ pc[p] = "saveOrganization"
  /\ LET slug == slugify(local[p].name)
         staged == UNION {tx[q].organizations : q \in others(p)}
         org == [id |-> NewId({o.id : o \in organizations \cup staged}, OrgIds),
                 name |-> local[p].name, slug |-> slug]
     IN /\ ~\E o \in staged : o.slug = slug
        /\ IF violatesUniqueSlug(organizations, org)
           THEN txFinish(p, InternalError) /\ tx' = [tx EXCEPT ![p] = NoTx[p]]
           ELSE txGoto(p, "saveOwner") /\ tx' = [tx EXCEPT ![p].organizations = {org}]
  /\ UNCHANGED <<response, now>>
  /\ txStore

(* await manager.save(member) *)
saveOwner(p) ==
  /\ pc[p] = "saveOwner"
  /\ tx' = [tx EXCEPT ![p].organization_members =
              {ownerMembership(o.id, local[p].userId) : o \in tx[p].organizations}]
  /\ txGoto(p, "commit")
  /\ UNCHANGED <<response, now>>
  /\ txStore

(* ---- createComment, updateComment ---- *)

(* createComment: the task and the membership lookups, then the transaction begins *)
checkTask(p) ==
  /\ pc[p] = "check"
  /\ local[p].op = "createComment"
  /\ IF findTask(local[p].taskId) = {} THEN txFinish(p, NotFound) /\ UNCHANGED tx
     ELSE IF ~hasAccess(projectOfTask(CHOOSE t \in findTask(local[p].taskId) : TRUE)
                          .organization_id, local[p].userId)
          THEN txFinish(p, Forbidden) /\ UNCHANGED tx
     ELSE txGoto(p, "saveComment") /\ tx' = [tx EXCEPT ![p] = EmptyTx]
  /\ UNCHANGED <<response, now>>
  /\ txStore

(* updateComment: the comment lookup and the author check, then the transaction begins *)
checkComment(p) ==
  /\ pc[p] = "check"
  /\ local[p].op = "updateComment"
  /\ IF findComment(local[p].commentId) = {} THEN txFinish(p, NotFound) /\ UNCHANGED tx
     ELSE LET comment == CHOOSE c \in findComment(local[p].commentId) : TRUE
          IN IF comment.user_id # local[p].userId
             THEN txFinish(p, Forbidden) /\ UNCHANGED tx
             ELSE /\ pc' = [pc EXCEPT ![p] = "saveComment"]
                  /\ local' = [local EXCEPT ![p].taskId = comment.task_id]
                  /\ tx' = [tx EXCEPT ![p] = EmptyTx]
  /\ UNCHANGED <<response, now>>
  /\ txStore

(* await manager.save(comment): an insert for createComment; for updateComment an
   update of the row, which waits for a transaction that has written the row *)
saveComment(p) ==
  /\ pc[p] = "saveComment"
  /\ LET staged == UNION {tx[q].comments : q \in others(p)}
         id == IF local[p].op = "createComment"
               THEN NewId({c.id : c \in comments \cup staged}, CommentIds)
               ELSE local[p].commentId
     IN /\ ~\E c \in staged : c.id = id
        /\ tx' = [tx EXCEPT ![p].comments =
                    {[id |-> id, task_id |-> local[p].taskId, user_id |-> local[p].userId,
                      content |-> local[p].content]}]
        /\ local' = [local EXCEPT ![p].commentId = id]
        /\ pc' = [pc EXCEPT ![p] = IF local[p].op = "createComment"
                                   THEN "saveMentions" ELSE "deleteMentions"]
  /\ UNCHANGED <<response, now>>
  /\ txStore

(* await manager.delete(Mention, { comment_id: commentId }) *)
stageDeleteMentions(p) ==
  /\ pc[p] = "deleteMentions"
  /\ tx' = [tx EXCEPT ![p].deleted = {local[p].commentId}]
  /\ txGoto(p, "saveMentions")
  /\ UNCHANGED <<response, now>>
  /\ txStore

(* the user query and await manager.save(mentions) *)
saveMentions(p) ==
  /\ pc[p] = "saveMentions"
  /\ tx' = [tx EXCEPT ![p].inserted =
              {[comment_id |-> local[p].commentId, mentioned_user_id |-> u] :
                 u \in usersNamed(parse(local[p].content))}]
  /\ txGoto(p, "commit")
  /\ UNCHANGED <<response, now>>
  /\ txStore

(* ---- the end of a transaction ---- *)

(* the rows of a transaction applied to the mention table *)
applyMentions(rows, t) ==
  LET kept == {m \in rows : m.comment_id \notin t.deleted}
  IN IF t.inserted = {} THEN kept
     ELSE insertMentions(kept, (CHOOSE x \in t.inserted : TRUE).comment_id,
                         {x.mentioned_user_id : x \in t.inserted})

(* the callback returns: COMMIT makes every row of the transaction visible at once *)
commit(p) ==
  /\ pc[p] = "commit"
  /\ organizations' = organizations \cup tx[p].organizations
  /\ organization_members' = organization_members \cup tx[p].organization_members
  /\ comments' = {c \in comments : \A n \in tx[p].comments : n.id # c.id} \cup tx[p].comments
  /\ mentions' = applyMentions(mentions, tx[p])
  /\ tx' = [tx EXCEPT ![p] = NoTx[p]]
  /\ txFinish(p, OK)
  /\ UNCHANGED <<projects, tasks, custom_properties, custom_property_values, response, now>>

(* a store call of the callback throws: ROLLBACK, and the request fails *)
rollback(p) ==
  /\ tx[p].open
  /\ tx' = [tx EXCEPT ![p] = NoTx[p]]
  /\ txFinish(p, InternalError)
  /\ UNCHANGED <<response, now>>
  /\ txStore

TxNames == { <<"A", "c">>, <<"a", " ", "c">> }
TxContents ==
  { <<"@", "[", "a", "]", "@", "[", "b", "]">>,
    <<"@", "[", "b", "]", "@", "[", "u", "s", "e", "r", ":", "c", "]">>,
    <<"@", "[", "z", "]", "@", "[">> }
TxUsers == {"u1", "u2"}

createOrganizationArrives(p, userId, name) ==
  /\ Cardinality(organizations) + Cardinality(inFlight("createOrganization")) < MaxOrgs
  /\ txArrives(p, [NoRequest EXCEPT !.op = "createOrganization", !.userId = userId,
                                    !.name = name])

createCommentArrives(p, taskId, userId, content) ==
  /\ Cardinality(comments) + Cardinality(inFlight("createComment")) < MaxComments
  /\ txArrives(p, [NoRequest EXCEPT !.op = "createComment", !.userId = userId,
                                    !.taskId = taskId, !.content = content])

updateCommentArrives(p, commentId, userId, content) ==
  txArrives(p, [NoRequest EXCEPT !.op = "updateComment", !.userId = userId,
                                 !.commentId = commentId, !.content = content])

(* SpecTx: Acme with one task, and two slots that create organizations and write
   comments *)
InitTx ==
  /\ organizations = {Acme}
  /\ organization_members = {[organization_id |-> Acme.id, user_id |-> "u1", role |-> OWNER]}
  /\ projects = {Roadmap}
  /\ tasks = {Ship}
  /\ comments = {}
  /\ mentions = {}
  /\ custom_properties = {}
  /\ custom_property_values = {}
  /\ now = 1
  /\ response = NoResponse
  /\ pc = Idle
  /\ local = [p \in Slots |-> NoRequest]
  /\ tx = NoTx

NextTx ==
  \/ \E p \in Slots, userId \in TxUsers, name \in TxNames :
       createOrganizationArrives(p, userId, name)
  \/ \E p \in Slots, taskId \in TaskIds, userId \in TxUsers, content \in TxContents :
       createCommentArrives(p, taskId, userId, content)
  \/ \E p \in Slots, commentId \in CommentIds, userId \in TxUsers, content \in TxContents :
       updateCommentArrives(p, commentId, userId, content)
  \/ \E p \in Slots : checkSlug(p)
  \/ \E p \in Slots : saveOrganization(p)
  \/ \E p \in Slots : saveOwner(p)
  \/ \E p \in Slots : checkTask(p)
  \/ \E p \in Slots : checkComment(p)
  \/ \E p \in Slots : saveComment(p)
  \/ \E p \in Slots : stageDeleteMentions(p)
  \/ \E p \in Slots : saveMentions(p)
  \/ \E p \in Slots : commit(p)
  \/ \E p \in Slots : rollback(p)

SpecTx == InitTx /\ [][NextTx]_vars

-----------------------------------------------------------------------------
(* Claims about transactions *)

(* what a reader of the committed tables can see *)
OrganizationsHaveOwner == \A o \in organizations : ownerCount(o.id) >= 1

CommentsHaveMentions ==
  \A c \in comments :
    /\ {m.mentioned_user_id : m \in mentionsOf(mentions, c.id)} = namedUsers(c.content)
    /\ Cardinality(mentionsOf(mentions, c.id)) = Cardinality(namedUsers(c.content))

(* a request that fails leaves the tables as they are, and the tables change only
   when a transaction commits *)
C5_Step ==
  /\ \A p \in Slots :
       (pc[p] # "done" /\ pc'[p] = "done" /\ local'[p].status # OK) => UNCHANGED store
  /\ store' # store => \E p \in Slots : pc[p] = "commit" /\ ~tx'[p].open

(* C5: createOrganization, createComment and updateComment are all-or-nothing: a
   failure after the first row write leaves no row of the operation, and no reader
   sees an organization without its OWNER membership or a comment whose mention
   rows are not those of its content. *)
C5_AllOrNothing ==
  /\ [](OrganizationsHaveOwner /\ CommentsHaveMentions)
  /\ [][C5_Step]_vars

(* an updateComment failed after it had written the new content and deleted the old
   mentions; the comment still has its old content and mentions *)
C5_Witness ==
  \E p \in Slots :
    /\ pc[p] = "done"
    /\ local[p].op = "updateComment"
    /\ local[p].status = InternalError
    /\ local[p].failedAt = "saveMentions"
    /\ \E c \in findComment(local[p].commentId) :
         /\ c.content # local[p].content
         /\ mentionsOf(mentions, c.id) # {}

-----------------------------------------------------------------------------
(* Claims about who may change comments and custom properties *)

C11_Step ==
  LET r == response'
  IN \A c \in comments :
       LET role == roleOf(projectOfTask(taskOfComment(c)).organization_id, r.actor)
           allowed == IF r.op = "updateComment" THEN c.user_id = r.actor
                      ELSE c.user_id = r.actor \/ role \in {ADMIN, OWNER}
       IN (r.op \in {"updateComment", "deleteComment"} /\ r.req.commentId = c.id)
          => /\ r.status = OK => allowed
             /\ ~allowed => /\ r.status = Forbidden
                            /\ UNCHANGED <<comments, mentions>>

(* C11: updateComment succeeds only for the author of the comment, deleteComment
   only for the author or an ADMIN or OWNER of the comment's organization; for any
   other actor the call answers Forbidden and the comment and its mentions stay. *)
C11_CommentAuthorOrPrivileged == [][C11_Step]_vars

(* u3, a MEMBER of Acme, was refused the deletion of a comment written by u1 *)
C11_Witness ==
  /\ response.op = "deleteComment"
  /\ response.status = Forbidden
  /\ response.actor = "u3"
  /\ \E c \in findComment(response.req.commentId) : c.user_id = "u1"

C12_Step ==
  LET r == response'
      orgs == IF r.op = "defineCustomProperty" THEN {r.req.orgId}
              ELSE {c.organization_id : c \in findProperty(r.req.propertyId)}
  IN r.op \in {"defineCustomProperty", "updatePropertyDefinition", "deleteProperty"}
     => \A orgId \in orgs :
          /\ r.status = OK => roleOf(orgId, r.actor) \in {OWNER, ADMIN}
          /\ roleOf(orgId, r.actor) \notin {OWNER, ADMIN}
               => r.status = Forbidden /\ UNCHANGED custom_properties

(* C12: defineCustomProperty, updatePropertyDefinition and deleteProperty succeed
   only for an OWNER or ADMIN of the property's organization; a MEMBER, a VIEWER
   and a non-member get Forbidden and the definitions are unchanged. *)
C12_PropertyDefinitionsByAdmins == [][C12_Step]_vars

(* u3, a VIEWER of Acme, was refused the update of a definition of Acme *)
C12_Witness ==
  /\ response.op = "updatePropertyDefinition"
  /\ response.status = Forbidden
  /\ roleOf(Acme.id, response.actor) = VIEWER
  /\ \E c \in findProperty(response.req.propertyId) : c.organization_id = Acme.id

-----------------------------------------------------------------------------
(* setPropertyValue as the sequence of its awaited queries, so that two requests
   can interleave: the method runs outside any transaction and the table has no
   unique constraint on (entity_id, custom_property_id).                        *)

valuesOnly == UNCHANGED <<organizations, organization_members, projects, tasks,
                          comments, mentions, custom_properties, now, response, tx>>

(* a call setPropertyValue(entityId, propertyId, value, userId) starts *)
valueRequestArrives(p, entityId, propertyId, value, userId) ==
  /\ pc[p] \in {"idle", "done"}
  /\ pc' = [pc EXCEPT ![p] = "checkProperty"]
  /\ local' = [local EXCEPT ![p] = [op |-> "setPropertyValue", entityId |-> entityId,
                                    propertyId |-> propertyId, value |-> value,
                                    userId |-> userId, found |-> {}, status |-> 0]]
  /\ UNCHANGED custom_property_values
  /\ valuesOnly

(* const prop = await findOne(...) and, for a USER property, the lookups of the
   user and of the membership row *)
checkProperty(p) ==
  /\ pc[p] = "checkProperty"
  /\ LET l == local[p]
     IN IF findProperty(l.propertyId) = {} THEN finish(p, NotFound)
        ELSE LET prop == CHOOSE c \in findProperty(l.propertyId) : TRUE
             IN IF prop.property_type = USER /\ l.value \notin Users \cup {"u9"}
                THEN finish(p, InternalError)
                ELSE IF prop.property_type = USER /\ l.value \notin Users
                     THEN finish(p, NotFound)
                ELSE IF prop.property_type = USER
                        /\ findMember(prop.organization_id, l.value) = {}
                     THEN finish(p, BadRequest)
                ELSE /\ pc' = [pc EXCEPT ![p] = "findValue"]
                     /\ UNCHANGED local
  /\ UNCHANGED custom_property_values
  /\ valuesOnly

(* let propertyValue = await findOne({entity_id, custom_property_id}); a row made by
   create(...) has no id until it is saved *)
findValueRow(p) ==
  /\ pc[p] = "findValue"
  /\ LET l == local[p]
         existing == findValue(l.entityId, l.propertyId)
     IN local' = [local EXCEPT ![p].found =
                    IF existing = {} THEN {} ELSE {CHOOSE v \in existing : TRUE}]
  /\ pc' = [pc EXCEPT ![p] = "saveValue"]
  /\ UNCHANGED custom_property_values
  /\ valuesOnly

(* propertyValue.value = value; return save(propertyValue) *)
saveValueRow(p) ==
  /\ pc[p] = "saveValue"
  /\ LET l == local[p]
         prop == CHOOSE c \in findProperty(l.propertyId) : TRUE
         row == IF l.found = {} THEN newValue(l.entityId, prop, l.value)
                ELSE [(CHOOSE v \in l.found : TRUE) EXCEPT !.value = l.value]
     IN IF findTask(l.entityId) = {}
        THEN /\ finish(p, InternalError)
             /\ UNCHANGED custom_property_values
        ELSE /\ l.found = {} => Cardinality(custom_property_values) < MaxValues
             /\ custom_property_values' = saveValue(custom_property_values, row)
             /\ finish(p, OK)
  /\ valuesOnly

(* SpecValues: one task of Acme with one custom property, TEXT or USER, and two
   request slots *)
InitValues ==
  /\ TwoOrganizations
  /\ projects = {Roadmap}
  /\ tasks = {Ship}
  /\ comments = {}
  /\ mentions = {}
  /\ \E type \in PropertyType :
       custom_properties = {[id |-> 1, organization_id |-> Acme.id,
                             property_name |-> "n", property_type |-> type,
                             entity_type |-> TASK]}
  /\ custom_property_values = {}
  /\ NoRequests

NextValues ==
  \/ \E p \in Slots, e \in TaskIds, c \in PropertyIds, v \in PropertyValues :
       valueRequestArrives(p, e, c, v, "u1")
  \/ \E p \in Slots : checkProperty(p)
  \/ \E p \in Slots : findValueRow(p)
  \/ \E p \in Slots : saveValueRow(p)

SpecValues == InitValues /\ [][NextValues]_vars

OneValuePerPair ==
  \A v \in custom_property_values, w \in custom_property_values :
    (v.entity_id = w.entity_id /\ v.custom_property_id = w.custom_property_id)
      => v = w

C13_Step ==
  \A p \in Slots :
    (pc[p] = "saveValue" /\ pc'[p] = "done" /\ local'[p].status = OK
       /\ findValue(local[p].entityId, local[p].propertyId) # {})
      => Cardinality(custom_property_values') = Cardinality(custom_property_values)

(* C13: after any sequence of setPropertyValue calls, concurrent calls for the same
   pair included, there is at most one value row per (entity_id,
   custom_property_id), and a write for a pair that already has a row overwrites
   that row instead of adding one. *)
C13_OneValuePerPair == []OneValuePerPair /\ [][C13_Step]_vars

C14_Step ==
  LET r == response'
  IN \A c \in custom_properties :
       (/\ r.op = "setPropertyValue"
        /\ r.req.propertyId = c.id
        /\ c.property_type = USER
        /\ findMember(c.organization_id, r.req.value) = {})
         => /\ r.status = BadRequest
            /\ UNCHANGED custom_property_values

(* C14: setPropertyValue on a USER property with a value that is not the id of a
   user who has a membership row in the property's organization is rejected with
   InvalidInput (400), and no value row is created or changed. *)
C14_UserValueMustBeMember == [][C14_Step]_vars

-----------------------------------------------------------------------------
(* Claims about the assignee and the payload of a task *)

C15_Step ==
  LET r == response'
  IN \A orgId \in organizationsOf(r.req) :
       (/\ r.op \in {"createTask", "updateTask", "assignTask"}
        /\ r.req.dto.assigneeId \in Users
        /\ findMember(orgId, r.req.dto.assigneeId) = {})
         => /\ r.status \in {BadRequest, Forbidden}
            /\ hasAccess(orgId, r.actor) => r.status = BadRequest
            /\ UNCHANGED tasks

(* C15: createTask, updateTask and assignTask with an assignee who has no
   membership row in the task's organization fail with a client error, which is
   InvalidInput (400) whenever the caller has access to the task's organization,
   never a server fault, and leave every task row unchanged. *)
C15_AssigneeMustBeMember == [][C15_Step]_vars

(* u1 was refused the assignment of an existing task of Acme to u2 *)
C15_Witness ==
  /\ response.op = "assignTask"
  /\ response.status = BadRequest
  /\ response.actor = "u1"
  /\ response.req.dto.assigneeId = "u2"
  /\ findTask(response.req.taskId) # {}

C16_Step ==
  LET r == response'
      dto == r.req.dto
  IN (r.op = "createTask" /\ r.status = OK)
       => \A t \in r.data :
            /\ t \in tasks'
            /\ t.status = IF dto.status = Undefined THEN TODO ELSE dto.status
            /\ t.priority = IF dto.priority = Undefined THEN MEDIUM ELSE dto.priority

(* C16: createTask stores the status and the priority of the payload, for every
   value of the two enums, and status TODO and priority MEDIUM when omitted. *)
C16_CreateStoresPayload == [][C16_Step]_vars

-----------------------------------------------------------------------------
(* SpecList: the list routes on one project of Acme that holds up to MaxRows tasks
   of priority LOW or HIGH, called by the member u1 and the stranger u2 with every
   page and limit of interest. SpecPages: a client, slot 1, that reads the pages of
   the project one after the other.                                            *)

RowIds == 1..MaxRows

Pages == {Absent, <<-1>>, <<0>>, <<1>>, <<2>>}
Limits == {Absent, <<-1>>, <<0>>, <<1>>, <<2>>, <<100>>, <<101>>}
Sortings ==
  { NoSorting,
    [sortBy |-> "id", sortOrder |-> Undefined],
    [sortBy |-> "priority", sortOrder |-> Undefined],
    [sortBy |-> "priority", sortOrder |-> "DESC"] }

InitList ==
  /\ TwoOrganizations
  /\ projects = {Roadmap}
  /\ \E n \in 0..MaxRows : \E priority \in [1..n -> {LOW, HIGH}] :
       tasks = {[Ship EXCEPT !.id = i, !.priority = priority[i]] : i \in 1..n}
  /\ comments = {}
  /\ mentions = {}
  /\ custom_properties = {}
  /\ custom_property_values = {}
  /\ NoRequests

listOnly == UNCHANGED <<organizations, organization_members, projects, tasks,
                        comments, mentions, custom_properties,
                        custom_property_values, now, tx>>

(* the client starts to read the project page by page with one limit and sort *)
startReading(limit, sorting) ==
  /\ pc[1] \in {"idle", "done"}
  /\ pc' = [pc EXCEPT ![1] = "reading"]
  /\ local' = [local EXCEPT ![1] = [op |-> "pages", limit |-> limit,
                                    sorting |-> sorting, page |-> 1, seen |-> <<>>,
                                    last |-> <<>>]]
  /\ UNCHANGED response
  /\ listOnly

(* the client requests its next page and appends the data to what it has seen;
   it stops two pages after the last one *)
readNextPage ==
  /\ pc[1] = "reading"
  /\ getProjectTasks(Roadmap.id, "u1",
                     [page |-> <<local[1].page>>, limit |-> local[1].limit],
                     local[1].sorting)
  /\ LET e == CHOOSE x \in response'.data : TRUE
     IN /\ local' = [local EXCEPT ![1].page = @ + 1, ![1].seen = @ \o e.data,
                                  ![1].last = e.data]
        /\ pc' = [pc EXCEPT ![1] = IF local[1].page > e.totalPages THEN "done"
                                   ELSE "reading"]
  /\ UNCHANGED tx

NextList ==
  \/ \E userId \in {"u1", "u2"}, page \in Pages, limit \in Limits,
        sorting \in {NoSorting, [sortBy |-> "priority", sortOrder |-> Undefined],
                     [sortBy |-> "nope", sortOrder |-> Undefined]} :
       findAll(Roadmap.id, userId, [page |-> page, limit |-> limit], sorting)
  \/ \E userId \in {"u1", "u2"}, page \in Pages, limit \in Limits :
       getOrganizationProjects(Acme.id, userId, [page |-> page, limit |-> limit])
  \/ \E userId \in {"u1", "u2"}, page \in Pages, limit \in Limits :
       getTaskComments(Ship.id, userId, [page |-> page, limit |-> limit])

SpecList == InitList /\ [][NextList]_vars

NextPages ==
  \/ \E limit \in {<<1>>, <<2>>}, sorting \in Sortings \ {NoSorting} :
       startReading(limit, sorting)
  \/ readNextPage

SpecPages == InitList /\ [][NextPages]_vars

-----------------------------------------------------------------------------
(* Claims about pagination *)

C17_Step ==
  LET r == response'
      q == r.req.query
      page == IF q.page = Absent \/ q.page[1] <= 0 THEN 1 ELSE q.page[1]
      limit == IF q.limit = Absent THEN 10
               ELSE IF q.limit[1] < 1 THEN 1
               ELSE IF q.limit[1] > 100 THEN 100
               ELSE q.limit[1]
  IN (r.op = "getProjectTasks" /\ r.status = OK)
       => \A e \in r.data :
            /\ e.page = page
            /\ e.limit = limit
            /\ e.query = [skip |-> (page - 1) * limit, take |-> limit]

(* C17: getProjectTasks uses and reports page 1 when the page is missing or <= 0,
   limit 10 when the limit is missing, limit 1 when it is < 1 (0 included), limit
   100 when it is > 100 and the supplied values otherwise; the offset it applies is
   (page - 1) * limit. *)
C17_PageAndLimitNormalised == [][C17_Step]_vars

ListOps == {"getProjectTasks", "getOrganizationProjects", "getTaskComments"}

C18_Step ==
  LET r == response'
      page == normalPage(fromQuery(r.req.query))
      limit == normalLimit(fromQuery(r.req.query))
  IN (r.op \in ListOps /\ r.status \notin {Forbidden, NotFound})
       => /\ r.status = OK
          /\ \A e \in r.data :
               /\ e.query = [skip |-> (page - 1) * limit, take |-> limit]
               /\ e.query.take <= 100
               /\ e.query.skip >= 0

(* C18: every list operation applies the page and limit normalization of
   getProjectTasks: for the same supplied page and limit they all use the same
   effective page and limit, the limit is never above 100 and the offset is never
   negative. *)
C18_SameNormalisationEverywhere == [][C18_Step]_vars

C19_Step ==
  LET r == response'
  IN (r.op = "getProjectTasks" /\ r.status = OK)
       => \A e \in r.data :
            /\ e.total = Cardinality(tasksOfProject(r.req.projectId))
            /\ e.totalPages * e.limit >= e.total
            /\ e.totalPages > 0 => (e.totalPages - 1) * e.limit < e.total
            /\ e.totalPages >= 0
            /\ e.hasNextPage = (e.page < e.totalPages)
            /\ e.hasPreviousPage = (e.page > 1)
            /\ e.total = 0 => (e.totalPages = 0 /\ ~e.hasNextPage)

(* C19: the envelope of getProjectTasks has totalPages = ceil(total / limit), that
   is the least number of pages of size limit that hold total rows, hasNextPage =
   (page < totalPages) and hasPreviousPage = (page > 1); an empty result has
   totalPages = 0 and hasNextPage = false. *)
C19_EnvelopeFigures == [][C19_Step]_vars

(* the first page of three tasks read two at a time: two pages, and a next one *)
C19_Witness ==
  /\ response.op = "getProjectTasks"
  /\ response.status = OK
  /\ \E e \in response.data :
       e.total = 3 /\ e.limit = 2 /\ e.page = 1 /\ e.totalPages = 2 /\ e.hasNextPage

inSortOrder(rows, sorting) ==
  \A i \in DOMAIN rows, j \in DOMAIN rows :
    i < j => IF sorting.sortOrder = "DESC"
             THEN sortKey(rows[i], sorting.sortBy) >= sortKey(rows[j], sorting.sortBy)
             ELSE sortKey(rows[i], sorting.sortBy) <= sortKey(rows[j], sorting.sortBy)

(* C20: for an unchanged project with N tasks and any limit, the pages
   1..ceil(N/limit) of getProjectTasks under a fixed sort are pairwise disjoint,
   hold each of the N tasks exactly once and are, one after the other, in sort
   order; every page beyond the last one is empty. *)
C20_PagesPartitionTheTasks ==
  local[1].op = "pages"
    => LET l == local[1]
       IN /\ \A i \in DOMAIN l.seen, j \in DOMAIN l.seen : i # j => l.seen[i] # l.seen[j]
          /\ inSortOrder(l.seen, l.sorting)
          /\ pc[1] = "done" => /\ {l.seen[i] : i \in DOMAIN l.seen} = tasksOfProject(Roadmap.id)
                               /\ l.last = <<>>

-----------------------------------------------------------------------------
(* Claims about the order and the sort field of getProjectTasks *)

C21_Step ==
  (/\ response.op = "getProjectTasks"
   /\ response'.op = "getProjectTasks"
   /\ response.status = OK
   /\ response'.actor = response.actor
   /\ response'.req = response.req
   /\ UNCHANGED store)
    => response'.data = response.data

(* C21: two getProjectTasks calls with the same filter, sort, page and limit
   arguments against an unchanged dataset return the same data in the same order,
   also without a sort field and when tasks tie on the sort key. *)
C21_RepeatableOrder == [][C21_Step]_vars

C22_Step ==
  LET r == response'
  IN \A orgId \in organizationsOf(r.req) :
       (/\ r.op = "getProjectTasks"
        /\ hasAccess(orgId, r.actor)
        /\ ~isTaskColumn(r.req.sorting.sortBy))
         => \/ r.status = BadRequest
            \/ /\ r.status = OK
               /\ \A e \in r.data :
                    \E order \in anyOrder(tasksOfProject(r.req.projectId)) :
                      e.data = skipTake(order, e.query.skip, e.query.take)

(* C22: a sortBy value that is no sort field of tasks never reaches the store
   query of getProjectTasks: the call is either rejected as invalid input or
   answered as if no sort field had been supplied. *)
C22_UnknownSortFieldStopped == [][C22_Step]_vars

-----------------------------------------------------------------------------
(* deleteOrganization as the sequence of its awaited statements: the method runs
   outside any transaction, so other requests can act between two statements.
   No relation declares onDelete, so the store refuses to delete a row that
   another row references; the error middleware answers such a failure with 500. *)

deleteOrganizationArrives(p, orgId, userId) ==
  /\ pc[p] \in {"idle", "done"}
  /\ pc' = [pc EXCEPT ![p] = "deleteCheck"]
  /\ local' = [local EXCEPT ![p] = [op |-> "deleteOrganization", orgId |-> orgId,
                                    userId |-> userId, projects |-> {}, status |-> 0]]
  /\ UNCHANGED <<store, now, response, tx>>

organizationReferenced_byMembers(orgId) ==
  \E m \in organization_members : m.organization_id = orgId

(* the rows whose organization_id column references the organization: projects,
   custom properties and memberships each have a ManyToOne to Organization *)
organizationReferenced(orgId) ==
  \/ \E q \in projects : q.organization_id = orgId
  \/ \E c \in custom_properties : c.organization_id = orgId
  \/ \E m \in organization_members : m.organization_id = orgId

deleteOrganizationStep(p) ==
  LET l == local[p]
      goto(label) == /\ pc' = [pc EXCEPT ![p] = label]
                     /\ UNCHANGED local
      ownTasks(ids) == {t \in tasks : t.project_id \in ids}
      ownProjects == {q \in projects : q.organization_id = l.orgId}
      ownProperties == {c \in custom_properties : c.organization_id = l.orgId}
      ownMembers == {m \in organization_members : m.organization_id = l.orgId}
  IN /\ local[p].op = "deleteOrganization"
     /\ CASE pc[p] = "deleteCheck" ->
               (* the membership row of the caller, which must be OWNER *)
               /\ IF roleOf(l.orgId, l.userId) # OWNER THEN finish(p, Forbidden)
                  ELSE goto("deleteFind")
               /\ UNCHANGED store
          [] pc[p] = "deleteFind" ->
               (* const projects = await projectRepository.find(...) *)
               /\ local' = [local EXCEPT ![p].projects = {q.id : q \in ownProjects}]
               /\ pc' = [pc EXCEPT ![p] = "deleteTasks"]
               /\ UNCHANGED store
          [] pc[p] = "deleteTasks" ->
               (* for (const project of projects) taskRepository.delete({project_id}) *)
               IF l.projects = {}
               THEN goto("deleteProjects") /\ UNCHANGED store
               ELSE LET id == CHOOSE i \in l.projects : \A j \in l.projects : i <= j
                        gone == ownTasks({id})
                    IN IF \/ \E c \in comments : c.task_id \in {t.id : t \in gone}
                          \/ \E v \in custom_property_values :
                               v.entity_id \in {t.id : t \in gone}
                       THEN finish(p, InternalError) /\ UNCHANGED store
                       ELSE /\ tasks' = tasks \ gone
                            /\ local' = [local EXCEPT ![p].projects = @ \ {id}]
                            /\ UNCHANGED <<pc, organizations, organization_members,
                                           projects, comments, mentions,
                                           custom_properties, custom_property_values>>
          [] pc[p] = "deleteProjects" ->
               (* projectRepository.delete({organization_id}) *)
               IF ownTasks({q.id : q \in ownProjects}) # {}
               THEN finish(p, InternalError) /\ UNCHANGED store
               ELSE /\ projects' = projects \ ownProjects
                    /\ goto("deleteProperties")
                    /\ UNCHANGED <<organizations, organization_members, tasks, comments,
                                   mentions, custom_properties, custom_property_values>>
          [] pc[p] = "deleteProperties" ->
               (* customPropertyRepository.delete({organization_id}) *)
               IF \E v \in custom_property_values :
                    v.custom_property_id \in {c.id : c \in ownProperties}
               THEN finish(p, InternalError) /\ UNCHANGED store
               ELSE /\ custom_properties' = custom_properties \ ownProperties
                    /\ goto("deleteMembers")
                    /\ UNCHANGED <<organizations, organization_members, projects, tasks,
                                   comments, mentions, custom_property_values>>
          [] pc[p] = "deleteMembers" ->
               (* organizationMemberRepository.delete({organization_id}) *)
               /\ organization_members' = organization_members \ ownMembers
               /\ goto("deleteRow")
               /\ UNCHANGED <<organizations, projects, tasks, comments, mentions,
                              custom_properties, custom_property_values>>
          [] pc[p] = "deleteRow" ->
               (* organizationRepository.delete(orgId) *)
               IF organizationReferenced(l.orgId)
               THEN finish(p, InternalError) /\ UNCHANGED store
               ELSE /\ organizations' = {o \in organizations : o.id # l.orgId}
                    /\ finish(p, OK)
                    /\ UNCHANGED <<organization_members, projects, tasks, comments,
                                   mentions, custom_properties, custom_property_values>>
          [] OTHER -> FALSE
     /\ UNCHANGED <<now, response, tx>>

(* SpecDelete: Acme with a project and, each of them or not, a task, a comment on
   it, a property and a value; two slots delete Acme while members of Acme create
   tasks, projects and properties *)
InitDelete ==
  /\ TwoOrganizations
  /\ projects = {Roadmap}
  /\ tasks \in {{}, {Ship}}
  /\ comments \in {{}} \cup {{[id |-> 1, task_id |-> t.id, user_id |-> "u1",
                                content |-> <<"x">>]} : t \in tasks}
  /\ mentions = {}
  /\ custom_properties \in {{}, {[id |-> 1, organization_id |-> Acme.id,
                                  property_name |-> "n", property_type |-> TEXT,
                                  entity_type |-> TASK]}}
  /\ custom_property_values \in
       {{}} \cup {{[id |-> 1, entity_id |-> t.id, entity_type |-> TASK,
                    custom_property_id |-> c.id, value |-> "v"]} :
                  t \in tasks, c \in custom_properties}
  /\ NoRequests

NextDelete ==
  \/ \E p \in Slots, userId \in {"u1", "u3"} :
       deleteOrganizationArrives(p, Acme.id, userId)
  \/ \E p \in Slots : deleteOrganizationStep(p)
  \/ \E userId \in {"u1", "u3"} :
       createTask(Roadmap.id, userId,
                  [title |-> "t", status |-> Undefined, priority |-> Undefined,
                   assigneeId |-> Undefined])
  \/ \E userId \in {"u1", "u3"} : createProject(Acme.id, userId, "q")
  \/ \E userId \in {"u1", "u3"}, dto \in PropertyDtos :
       defineCustomProperty(Acme.id, userId, dto)

SpecDelete == InitDelete /\ [][NextDelete]_vars

ownedBy(orgId) ==
  [projects |-> {q \in projects : q.organization_id = orgId},
   tasks |-> {t \in tasks : \E q \in projects :
                q.id = t.project_id /\ q.organization_id = orgId},
   custom_properties |-> {c \in custom_properties : c.organization_id = orgId},
   organization_members |-> {m \in organization_members : m.organization_id = orgId}]

C23_Step ==
  \A p \in Slots :
    (local[p].op = "deleteOrganization" /\ pc[p] # pc'[p])
      => LET X == local[p].orgId
         IN /\ (pc'[p] = "done" /\ local'[p].status = OK)
                 => /\ \A o \in organizations' : o.id # X
                    /\ \A q \in projects' : q.organization_id # X
                    /\ \A t \in tasks' : \A q \in projects : q.id = t.project_id
                                           => q.organization_id # X
                    /\ \A c \in custom_properties' : c.organization_id # X
                    /\ \A m \in organization_members' : m.organization_id # X
            /\ projects' # projects => ownedBy(X).tasks = {}
            /\ organizations' # organizations
                 => /\ ownedBy(X).projects = {}
                    /\ ownedBy(X).custom_properties = {}
                    /\ ownedBy(X).organization_members = {}

(* C23: after a successful deleteOrganization(X) no project, task, custom property
   or membership row of X remains; within the operation the tasks of X are gone
   when its projects are deleted, and its projects, custom properties and
   memberships are gone when the organization row is deleted. *)
C23_CascadeInOrder == [][C23_Step]_vars

(* a deletion of Acme succeeded after a task had been created in its project *)
C23_Witness ==
  \E p \in Slots :
    /\ local[p].op = "deleteOrganization"
    /\ pc[p] = "done"
    /\ local[p].status = OK
    /\ \A o \in organizations : o.id # Acme.id
    /\ response.op = "createTask"
    /\ response.status = OK


(***************************************************************************)
(* C24: no response carries a password hash.  Checked on getTaskById: no   *)
(* user record joined to the returned task (its assignee) has a            *)
(* password_hash field.                                                    *)
(***************************************************************************)
C24_NoPasswordHash ==
  (response.op = "getTaskById" /\ response.status = OK)
    => \A e \in response.data : \A u \in e.assignee : "password_hash" \notin DOMAIN u


C25_Step ==
  LET r == response'
      named == DOMAIN r.req \cap {"orgId", "projectId", "taskId"} # {}
  IN (r.op # "none" /\ named)
       => /\ organizationsOf(r.req) = {} => r.status = NotFound
          /\ r.status = Forbidden => organizationsOf(r.req) # {}

(* C25: an operation that names an organization, project or task by id answers
   NotFound when the named entity, or a link of its chain up to the organization,
   does not exist, whoever the actor is; it answers Forbidden only when the chain
   exists. *)
C25_MissingTargetNotFound == [][C25_Step]_vars


-----------------------------------------------------------------------------
(* TasksService.searchTasks *)

(* text @@ to_tsquery('<query>:*'): a word of the text starts with the query; the
   texts and queries of the model are single one-letter words, and NULL matches
   nothing *)
matches(text, searchQuery) == text # Null /\ text = searchQuery

(* .where(organization_id IN orgIds).andWhere(title @@ q).orWhere(description @@ q):
   the conditions are chained without brackets, so the filter reads
   (organization AND title) OR description *)
searchFilter(task, orgIds, searchQuery) ==
  \/ /\ projectOfTask(task).organization_id \in orgIds
     /\ matches(task.title, searchQuery)
  \/ matches(task.description, searchQuery)

searchTasks(userId, searchQuery, query) ==
  LET req == [q |-> searchQuery, query |-> query]
      reply(status, data) == response' = Respond("searchTasks", userId, req, status, data)
      orgIds == {m.organization_id : m \in {x \in organization_members : x.user_id = userId}}
      pagination == fromQuery(query)
      skip == (orDefault(pagination.page, 1) - 1) * orDefault(pagination.limit, 10)
      take == orDefault(pagination.limit, 10)
      rows == {[id |-> t.id, title |-> t.title, status |-> t.status,
                project |-> [id |-> projectOfTask(t).id, name |-> projectOfTask(t).name]] :
               t \in {x \in tasks : searchFilter(x, orgIds, searchQuery)}}
  IN /\ IF orgIds = {} THEN reply(OK, {[data |-> <<>>, total |-> 0]})
        ELSE IF skip < 0 \/ take < 0 THEN reply(InternalError, {})
        ELSE \E order \in anyOrder(rows) :
               reply(OK, {[data |-> skipTake(order, skip, take), total |-> Len(order)]})
     /\ UNCHANGED <<projects, tasks, now>>
     /\ tasksFrame
     /\ sequential

SearchWords == {"q", "t"}

SearchDtos ==
  {[title |-> title, status |-> Undefined, priority |-> Undefined,
    assigneeId |-> Undefined, description |-> description] :
   title \in SearchWords, description \in SearchWords \cup {Undefined}}

InitSearch ==
  /\ TwoOrganizations
  /\ projects = {Roadmap}
  /\ tasks = {}
  /\ comments = {}
  /\ mentions = {}
  /\ custom_properties = {}
  /\ custom_property_values = {}
  /\ NoRequests

NextSearch ==
  \/ \E userId \in Users, dto \in SearchDtos : createTask(Roadmap.id, userId, dto)
  \/ \E taskId \in TaskIds, userId \in Users : deleteTask(taskId, userId)
  \/ \E userId \in Users, searchQuery \in SearchWords,
        page \in {Absent, <<0>>, <<1>>, <<2>>} :
       searchTasks(userId, searchQuery, [page |-> page, limit |-> Absent])

SpecSearch == InitSearch /\ [][NextSearch]_vars

(* C26: searchTasks returns only tasks whose project belongs to an organization in
   which the actor has a membership row, whether the query matched the title or
   the description. *)
C26_SearchStaysInOrganizations ==
  (response.op = "searchTasks" /\ response.status = OK)
    => \A e \in response.data : \A i \in DOMAIN e.data :
         \E p \in projects : /\ p.id = e.data[i].project.id
                             /\ hasAccess(p.organization_id, response.actor)


(* C27: every mention row persisted by createComment or updateComment references
   an existing user who holds a membership row in the organization of the
   comment's task. *)
C27_MentionedAreMembers ==
  \A m \in mentions : \A c \in findComment(m.comment_id) :
    /\ m.mentioned_user_id \in Users
    /\ hasAccess(projectOfTask(taskOfComment(c)).organization_id, m.mentioned_user_id)


C28_Step ==
  LET r == response'
  IN /\ (r.op = "deleteProperty" /\ r.status = OK)
          => /\ \A c \in custom_properties' : c.id # r.req.propertyId
             /\ \A v \in custom_property_values' : v.custom_property_id # r.req.propertyId
     /\ \A v \in custom_property_values' :
          \E c \in custom_properties' : c.id = v.custom_property_id

(* C28: after a successful deleteProperty(p) no value row with
   custom_property_id = p remains, and in every reachable state each value row
   references an existing property definition. *)
C28_NoOrphanValues == [][C28_Step]_vars

(* a definition was deleted while the task still carries no value of it *)
C28_Witness ==
  /\ response.op = "deleteProperty"
  /\ response.status = OK
  /\ \A c \in custom_properties : c.id # response.req.propertyId


C29_Step ==
  \A m \in organization_members' :
    (m.role = OWNER /\ m \notin organization_members)
      => \/ response'.op = "createOrganization" /\ response'.actor = m.user_id
         \/ /\ response'.op \in {"inviteMember", "updateMemberRole"}
            /\ roleOf(m.organization_id, response'.actor) = OWNER

(* C29: a user comes to hold OWNER in an organization only by creating it or
   through an inviteMember or updateMemberRole call issued by an actor who is
   OWNER of that organization at the time; an ADMIN never makes anyone OWNER. *)
C29_OnlyOwnersMakeOwners == [][C29_Step]_vars


C30_Step ==
  \A p \in Slots :
    (/\ pc[p] = "saveOrganization" /\ pc'[p] = "done"
     /\ local[p].op = "createOrganization"
     /\ slugTaken(slugify(local[p].name)))
      => local'[p].status = Conflict

OneOwnerPerSlug ==
  \A o \in organizations :
    /\ \A x \in organizations : x.slug = o.slug => x = o
    /\ ownerCount(o.id) >= 1

(* C30: of two concurrent createOrganization calls whose names derive the same slug
   one succeeds and the other, which passed the slug lookup before the first
   committed, fails with Conflict and not with an unclassified store error; no two
   organizations share a slug and each has its OWNER membership. *)
C30_ConcurrentSlugConflict == []OneOwnerPerSlug /\ [][C30_Step]_vars

=============================================================================
